---- MODULE Spec2Model ----
(***************************************************************************)
(* A model of timegrep (src/timegrep.c): the format-to-regex compiler, the *)
(* datetime extractor, the line locator, the forward scanner, the binary   *)
(* searcher, the file emitter, the stream emitter and main.                *)
(*                                                                         *)
(* Bytes are one-character strings; a buffer, a line, a format or an       *)
(* argument is a sequence of bytes.  C offsets are 0-based: byte i of a    *)
(* buffer d is d[i + 1].                                                   *)
(***************************************************************************)
EXTENDS Integers, Sequences, FiniteSets, TLC

\* ------------------------------------------------------------------ bounds

\* most lines of a log given to an emitter
MaxLines == 3
\* most file arguments of a command line
MaxFiles == 2
\* longest format string given with -e
MaxFormat == 3
\* most interval options (-s, -m, -h) of a command line
MaxIntervals == 2
\* largest window boundary (start and stop range over 0..MaxT)
MaxT == 4

\* ------------------------------------------------------- program constants

TG_FOUND == 2
TG_NOT_FOUND == 1
TG_NULL == 0
TG_ERROR == -1

\* TG_CHUNK_SIZE is 512 * 1024 in the source; the model scales it to 2 bytes
\* so that chunked writes, reads, growth and compaction happen on small buffers
TG_CHUNK_SIZE == 2

PCRE_ERROR_NOSUBSTRING == -7
LONG_MIN == -2147483647 - 1

NL == "\n"

At(d, i) == d[i + 1]

\* d[from .. to) with 0-based offsets
Slice(d, from, to) == [k \in 1..(to - from) |-> d[from + k]]

\* ------------------------------------------------------ character classes

Digit == {"0", "1", "2", "3", "4", "5", "6", "7", "8", "9"}
Upper == {"A", "B", "C", "D", "E", "F", "G", "H", "I", "J", "K", "L", "M",
          "N", "O", "P", "Q", "R", "S", "T", "U", "V", "W", "X", "Y", "Z"}
Lower == {"a", "b", "c", "d", "e", "f", "g", "h", "i", "j", "k", "l", "m",
          "n", "o", "p", "q", "r", "s", "t", "u", "v", "w", "x", "y", "z"}
Space == {" ", "\t", "\n", "\r", "\f"}

DigitVal(c) ==
    CASE c = "0" -> 0 [] c = "1" -> 1 [] c = "2" -> 2 [] c = "3" -> 3
      [] c = "4" -> 4 [] c = "5" -> 5 [] c = "6" -> 6 [] c = "7" -> 7
      [] c = "8" -> 8 [] c = "9" -> 9

\* ------------------------------------------------- regex parts (PCRE text)
\* An atom is a character class with a greedy repetition {lo,hi}; an
\* alternative is a sequence of atoms; a part is an ordered list of
\* alternatives (PCRE tries them left to right) with the name of its capture
\* group ("" when the part is not a named group).

One(cs) == [cs |-> cs, lo |-> 1, hi |-> 1]
Opt(cs) == [cs |-> cs, lo |-> 0, hi |-> 1]
Rep(cs, lo, hi) == [cs |-> cs, lo |-> lo, hi |-> hi]
Word(w) == [k \in 1..Len(w) |-> One({w[k]})]
Part(name, alts) == [name |-> name, alts |-> alts]

\* line 294
WeekdayPart ==
    Part("", << Word(<<"M","o","n">>), Word(<<"M","o","n","d","a","y">>),
                Word(<<"T","u","e">>), Word(<<"T","u","e","s","d","a","y">>),
                Word(<<"W","e","d">>), Word(<<"W","e","d","n","e","s","d","a","y">>),
                Word(<<"T","h","u">>), Word(<<"T","h","u","r","s","d","a","y">>),
                Word(<<"F","r","i">>), Word(<<"F","r","i","d","a","y">>),
                Word(<<"S","a","t">>), Word(<<"S","a","t","u","r","d","a","y">>),
                Word(<<"S","u","n">>), Word(<<"S","u","n","d","a","y">>) >>)

\* line 303
MonthTPart ==
    Part("month_t",
         << Word(<<"J","a","n">>), Word(<<"J","a","n","u","a","r","y">>),
            Word(<<"F","e","b">>), Word(<<"F","e","b","r","u","a","r","y">>),
            Word(<<"M","a","r">>), Word(<<"M","a","r","c","h">>),
            Word(<<"A","p","r">>), Word(<<"A","p","r","i","l">>),
            Word(<<"M","a","y">>),
            Word(<<"J","u","n">>), Word(<<"J","u","n","e">>),
            Word(<<"J","u","l">>), Word(<<"J","u","l","y">>),
            Word(<<"A","u","g">>), Word(<<"A","u","g","u","s","t">>),
            Word(<<"S","e","p">>), Word(<<"S","e","p","t","e","m","b","e","r">>),
            Word(<<"O","c","t">>), Word(<<"O","c","t","o","b","e","r">>),
            Word(<<"N","o","v">>), Word(<<"N","o","v","e","m","b","e","r">>),
            Word(<<"D","e","c">>), Word(<<"D","e","c","e","m","b","e","r">>) >>)

\* lines 316, 430, 460: \d{1,2}
Digits12Part == Part("", << <<Rep(Digit, 1, 2)>> >>)

\* line 323: [1-2][0-9]|3[0-1]|0?[1-9]
DayPart ==
    Part("day", << <<One({"1","2"}), One(Digit)>>,
                   <<One({"3"}), One({"0","1"})>>,
                   <<Opt({"0"}), One(Digit \ {"0"})>> >>)

\* line 335: 1[0-9]|2[0-3]|0?[0-9]
HourPart ==
    Part("hour", << <<One({"1"}), One(Digit)>>,
                    <<One({"2"}), One({"0","1","2","3"})>>,
                    <<Opt({"0"}), One(Digit)>> >>)

\* line 341: 1[0-2]|0?[1-9]
Hour12Part ==
    Part("", << <<One({"1"}), One({"0","1","2"})>>,
                <<Opt({"0"}), One(Digit \ {"0"})>> >>)

\* line 347: [1-2][0-9][0-9]|3[0-5][0-9]|36[0-6]|0?[1-9][0-9]|0{0,2}[1-9]
YearDayPart ==
    Part("", << <<One({"1","2"}), One(Digit), One(Digit)>>,
                <<One({"3"}), One({"0","1","2","3","4","5"}), One(Digit)>>,
                <<One({"3"}), One({"6"}), One({"0","1","2","3","4","5","6"})>>,
                <<Opt({"0"}), One(Digit \ {"0"}), One(Digit)>>,
                <<Rep({"0"}, 0, 2), One(Digit \ {"0"})>> >>)

\* line 353: 1[0-2]|0?[1-9]
MonthPart ==
    Part("month", << <<One({"1"}), One({"0","1","2"})>>,
                     <<Opt({"0"}), One(Digit \ {"0"})>> >>)

\* line 359: [1-5][0-9]|0?[0-9]
MinutePart ==
    Part("minute", << <<One({"1","2","3","4","5"}), One(Digit)>>,
                      <<Opt({"0"}), One(Digit)>> >>)

\* line 366: \s
SpacePart == Part("", << <<One(Space)>> >>)

\* line 372: (AM|PM)
AmPmPart == Part("", << Word(<<"A","M">>), Word(<<"P","M">>) >>)

\* line 390: [1-5][0-9]|60|0?[0-9]
SecondPart ==
    Part("second", << <<One({"1","2","3","4","5"}), One(Digit)>>,
                      <<One({"6"}), One({"0"})>>,
                      <<Opt({"0"}), One(Digit)>> >>)

\* line 404: [1-4][0-9]|5[0-3]|0?[0-9]
WeekPart ==
    Part("", << <<One({"1","2","3","4"}), One(Digit)>>,
                <<One({"5"}), One({"0","1","2","3"})>>,
                <<Opt({"0"}), One(Digit)>> >>)

\* line 410: [0-6]
WeekdayNumPart == Part("", << <<One({"0","1","2","3","4","5","6"})>> >>)

\* line 436: \d{4}
YearPart == Part("year", << <<Rep(Digit, 4, 4)>> >>)

\* line 466: \d{4}
IsoYearPart == Part("", << <<Rep(Digit, 4, 4)>> >>)

\* line 472: [1-7]
IsoWeekdayPart == Part("", << <<One({"1","2","3","4","5","6","7"})>> >>)

\* line 478: [1-4][0-9]|5[0-3]|0?[1-9]
IsoWeekPart ==
    Part("", << <<One({"1","2","3","4"}), One(Digit)>>,
                <<One({"5"}), One({"0","1","2","3"})>>,
                <<Opt({"0"}), One(Digit \ {"0"})>> >>)

\* line 485: ((\+|\-)\d{2}:?\d{2})|UT|UTC|GMT|EST|EDT|CST|CDT|MST|MDT|PST|PDT|[A-Z]
TimezonePart ==
    Part("timezone",
         << <<One({"+","-"}), Rep(Digit, 2, 2), Opt({":"}), Rep(Digit, 2, 2)>>,
            Word(<<"U","T">>), Word(<<"U","T","C">>), Word(<<"G","M","T">>),
            Word(<<"E","S","T">>), Word(<<"E","D","T">>),
            Word(<<"C","S","T">>), Word(<<"C","D","T">>),
            Word(<<"M","S","T">>), Word(<<"M","D","T">>),
            Word(<<"P","S","T">>), Word(<<"P","D","T">>),
            <<One(Upper)>> >>)

\* line 495: [A-Za-z0-9_\+\-/]{3,33}
ZoneNamePart ==
    Part("", << <<Rep(Upper \cup Lower \cup Digit \cup {"_", "+", "-", "/"}, 3, 33)>> >>)

\* line 502: \d{1,20}
TimestampPart == Part("timestamp", << <<Rep(Digit, 1, 20)>> >>)

\* lines 287, 522-534: a literal byte (escaped or verbatim) matches itself
LiteralPart(c) == Part("", << <<One({c})>> >>)

\* ------------------------------------------------------ format compiler

\* memset(&re_opt, 0, sizeof(re_opt))
ZeroOpt ==
    [has_year |-> 0, has_month |-> 0, has_month_t |-> 0, has_day |-> 0,
     has_hour |-> 0, has_minute |-> 0, has_second |-> 0, has_timezone |-> 0,
     has_timestamp |-> 0, fallback |-> 0]

\* the directives whose case sets `part` to a regex text
PartDirectives ==
    {"%", "a", "A", "b", "B", "h", "C", "d", "e", "H", "I", "j", "m", "M",
     "n", "t", "p", "S", "U", "W", "w", "y", "Y", "g", "G", "u", "V", "z",
     "Z", "s"}

\* the directives whose case recurses into strptime_regex
CompoundDirectives == {"c", "D", "r", "R", "T", "x", "X", "F"}

\* the regex text a directive's case assigns to `part`
DirectivePart(c) ==
    CASE c = "%" -> LiteralPart("%")
      [] c \in {"a", "A"} -> WeekdayPart
      [] c \in {"b", "B", "h"} -> MonthTPart
      [] c = "C" -> Digits12Part
      [] c \in {"d", "e"} -> DayPart
      [] c = "H" -> HourPart
      [] c = "I" -> Hour12Part
      [] c = "j" -> YearDayPart
      [] c = "m" -> MonthPart
      [] c = "M" -> MinutePart
      [] c \in {"n", "t"} -> SpacePart
      [] c = "p" -> AmPmPart
      [] c = "S" -> SecondPart
      [] c \in {"U", "W"} -> WeekPart
      [] c = "w" -> WeekdayNumPart
      [] c = "y" -> Digits12Part
      [] c = "Y" -> YearPart
      [] c = "g" -> Digits12Part
      [] c = "G" -> IsoYearPart
      [] c = "u" -> IsoWeekdayPart
      [] c = "V" -> IsoWeekPart
      [] c = "z" -> TimezonePart
      [] c = "Z" -> ZoneNamePart
      [] c = "s" -> TimestampPart

\* what a directive's case does to re_opt
DirectiveOpt(c, o) ==
    CASE c \in {"b", "B", "h"} -> [o EXCEPT !.has_month_t = @ + 1]
      [] c \in {"d", "e"} -> [o EXCEPT !.has_day = @ + 1]
      [] c = "H" -> [o EXCEPT !.has_hour = @ + 1]
      [] c = "m" -> [o EXCEPT !.has_month = @ + 1]
      [] c = "M" -> [o EXCEPT !.has_minute = @ + 1]
      [] c = "S" -> [o EXCEPT !.has_second = @ + 1]
      [] c = "Y" -> [o EXCEPT !.has_year = @ + 1]
      [] c = "z" -> [o EXCEPT !.has_timezone = @ + 1]
      [] c = "Z" -> [o EXCEPT !.fallback = 1, !.has_timezone = @ + 1]
      [] c = "s" -> [o EXCEPT !.has_timestamp = @ + 1]
      [] c \in {"a", "A", "C", "I", "j", "p", "U", "W", "w", "y", "g", "G",
                "u", "V"} -> [o EXCEPT !.fallback = 1]
      [] OTHER -> o

\* the format a compound directive's case recurses with
CompoundFormat(c) ==
    CASE c = "c" -> <<"%","x"," ","%","X">>
      [] c = "D" -> <<"%","m","/","%","d","/","%","y">>
      [] c = "r" -> <<"%","I",":","%","M",":","%","S"," ","%","p">>
      [] c = "R" -> <<"%","H",":","%","M">>
      [] c \in {"T", "X"} -> <<"%","H",":","%","M",":","%","S">>
      [] c \in {"x", "F"} -> <<"%","Y","-","%","m","-","%","d">>

\* lines 538-560: the check that forces fallback after the scan
ForceFallback(o) ==
    IF \/ o.has_year > 1 \/ o.has_month > 1 \/ o.has_month_t > 1
       \/ o.has_day > 1 \/ o.has_hour > 1 \/ o.has_minute > 1
       \/ o.has_second > 1 \/ o.has_timezone > 1 \/ o.has_timestamp > 1
       \/ (o.has_month + o.has_month_t) > 1
       \/ (o.has_timestamp > 0
           /\ (o.has_year + o.has_month + o.has_month_t + o.has_day
               + o.has_hour + o.has_minute + o.has_second) > 1)
    THEN [o EXCEPT !.fallback = 1]
    ELSE o

RECURSIVE strptime_scan(_, _, _, _)
\* The for loop of strptime_regex from byte format_index (0-based) on, with
\* the regex taken so far and the current re_opt.  ret is TG_ERROR or the
\* regex length, which the model measures in parts.
strptime_scan(format, format_index, regex, re_opt) ==
    IF format_index >= Len(format)
    THEN [ret |-> Len(regex), regex |-> regex, re_opt |-> ForceFallback(re_opt)]
    ELSE
      LET c == At(format, format_index) IN
      IF c = "%"
      THEN IF format_index + 1 = Len(format)
           THEN [ret |-> TG_ERROR, regex |-> regex, re_opt |-> re_opt]
           ELSE
             LET d == At(format, format_index + 1) IN
             IF d \in PartDirectives
             THEN strptime_scan(format, format_index + 2,
                                Append(regex, DirectivePart(d)),
                                DirectiveOpt(d, re_opt))
             ELSE IF d \in CompoundDirectives
             THEN LET sub == strptime_scan(CompoundFormat(d), 0, regex, re_opt) IN
                  IF sub.ret = TG_ERROR
                  THEN [ret |-> TG_ERROR, regex |-> regex, re_opt |-> sub.re_opt]
                  ELSE strptime_scan(format, format_index + 2, sub.regex, sub.re_opt)
             \* 'O', 'E' (line 442) and the default case (line 506)
             ELSE [ret |-> TG_ERROR, regex |-> regex, re_opt |-> re_opt]
      ELSE strptime_scan(format, format_index + 1,
                         Append(regex, LiteralPart(c)), re_opt)

strptime_regex(format, re_opt) == strptime_scan(format, 0, <<>>, re_opt)

\* ------------------------------------------------------------- pcre_exec
\* A backtracking matcher with PCRE's priorities: alternatives in order,
\* repetitions greedy, the leftmost start position first.

NoMatch == [ok |-> FALSE]

Min2(a, b) == IF a < b THEN a ELSE b

MaxOf(S) == CHOOSE x \in S : \A y \in S : y <= x
MinOf(S) == CHOOSE x \in S : \A y \in S : x <= y

\* number of consecutive bytes of s from offset pos on that lie in cs, at most hi
RunLen(s, pos, cs, hi) ==
    LET lim == Min2(hi, Len(s) - pos)
        ok == {n \in 0..lim : \A k \in 1..n : s[pos + k] \in cs}
    IN  CHOOSE n \in ok : \A m \in ok : m <= n

RECURSIVE AltEnds(_, _, _, _)
RECURSIVE CountEnds(_, _, _, _, _)
RECURSIVE PartEnds(_, _, _, _)
RECURSIVE Expand(_, _, _, _)
RECURSIVE Threads(_, _, _, _)

\* the offsets where atoms k.. of the alternative alt can end when they start
\* at pos, in the order the engine tries them (longer repetitions first)
AltEnds(alt, s, k, pos) ==
    IF k > Len(alt)
    THEN <<pos>>
    ELSE CountEnds(alt, s, k, pos, RunLen(s, pos, alt[k].cs, alt[k].hi))

\* the same with atom k repeated n times, then fewer
CountEnds(alt, s, k, pos, n) ==
    IF n < alt[k].lo
    THEN <<>>
    ELSE AltEnds(alt, s, k + 1, pos + n) \o CountEnds(alt, s, k, pos, n - 1)

\* the offsets where the part can end when it starts at pos, alternatives
\* a.. in their order
PartEnds(part, s, a, pos) ==
    IF a > Len(part.alts)
    THEN <<>>
    ELSE AltEnds(part.alts[a], s, 1, pos) \o PartEnds(part, s, a + 1, pos)

\* a partial match t that ends at en after one more part
Extended(t, en) ==
    [en |-> en, caps |-> Append(t.caps, [st |-> t.en, en |-> en])]

\* the partial match t continued through the part in every way that the
\* part allows, in the engine's order
Continued(part, t, ends) == [j \in 1..Len(ends) |-> Extended(t, ends[j])]

\* the partial matches list[j..], each continued through the part
Expand(part, s, list, j) ==
    IF j > Len(list)
    THEN <<>>
    ELSE Continued(part, list[j], PartEnds(part, s, 1, list[j].en))
         \o Expand(part, s, list, j + 1)

\* the matches of parts i.. of regex r that continue the partial matches of
\* list, in the order the engine finds them by backtracking; caps are the
\* [st, en) offsets of the parts
Threads(r, s, i, list) ==
    IF list = <<>> \/ i > Len(r)
    THEN list
    ELSE Threads(r, s, i + 1, Expand(r[i], s, list, 1))

\* the match of regex r against s that starts at offset pos
TryPart(r, s, pos) ==
    LET found == Threads(r, s, 1, <<[en |-> pos, caps |-> <<>>]>>) IN
    IF found = <<>>
    THEN NoMatch
    ELSE [ok |-> TRUE, caps |-> found[1].caps, en |-> found[1].en]

\* the match m found at offset pos
MatchAt(pos, m) == [ok |-> TRUE, st |-> pos, en |-> m.en, caps |-> m.caps]

\* the match at the leftmost offset of starts
Leftmost(r, s, starts) ==
    IF starts = {}
    THEN NoMatch
    ELSE MatchAt(MinOf(starts), TryPart(r, s, MinOf(starts)))

\* pcre_exec(re, re_extra, string, length, 0, 0, matches, 30): the leftmost
\* match, or no match.  Engine failures other than "no match" are not
\* produced by the model.
pcre_exec(r, s) ==
    Leftmost(r, s, {p \in 0..Len(s) : TryPart(r, s, p).ok})

\* pcre_get_stringnumber(re, name): the number of the named group; the model
\* numbers a group by the position of its part in the regex
pcre_get_stringnumber(r, name) ==
    LET idx == {i \in 1..Len(r) : r[i].name = name} IN
    IF idx = {} THEN PCRE_ERROR_NOSUBSTRING
    ELSE CHOOSE i \in idx : \A j \in idx : i <= j

\* pcre_copy_substring(string, matches, count, number, buffer, 35): the bytes
\* of group `number` of match m
pcre_copy_substring(s, m, number) == Slice(s, m.caps[number].st, m.caps[number].en)

\* ------------------------------------------------------- token decoders

RECURSIVE DecimalValue(_, _, _)
\* the value of the digits of buffer from 1-based index k on, after acc
DecimalValue(buffer, k, acc) ==
    IF k > Len(buffer) \/ buffer[k] \notin Digit
    THEN acc
    ELSE DecimalValue(buffer, k + 1, acc * 10 + DigitVal(buffer[k]))

\* strtol(buffer, NULL, 10) / strtoll on a buffer without sign or blanks
strtol(buffer) == DecimalValue(buffer, 1, 0)

INT_MAX == 2147483647

tg_atoi(buffer) ==
    LET result == strtol(buffer) IN
    IF result < 0 \/ result >= INT_MAX THEN TG_ERROR ELSE result

tg_atom(buffer, length) ==
    IF length < 3 THEN TG_ERROR
    ELSE CASE buffer[1] = "A" -> (IF buffer[2] = "p" THEN 3 ELSE 7)
           [] buffer[1] = "D" -> 11
           [] buffer[1] = "F" -> 1
           [] buffer[1] = "J" -> (IF buffer[2] = "a" THEN 0
                                  ELSE IF buffer[3] = "n" THEN 5 ELSE 6)
           [] buffer[1] = "M" -> (IF buffer[3] = "r" THEN 2 ELSE 4)
           [] buffer[1] = "N" -> 10
           [] buffer[1] = "O" -> 9
           [] buffer[1] = "S" -> 8
           [] OTHER -> TG_ERROR

\* buffer[i] - '0' for the bytes the timezone part admits there
D0(buffer, i) == DigitVal(At(buffer, i))

Military(c) ==
    CASE c = "A" -> -1 [] c = "B" -> -2 [] c = "C" -> -3 [] c = "D" -> -4
      [] c = "E" -> -5 [] c = "F" -> -6 [] c = "G" -> -7 [] c = "H" -> -8
      [] c = "I" -> -9 [] c = "K" -> -10 [] c = "L" -> -11 [] c = "M" -> -12
      [] c = "N" -> 1 [] c = "O" -> 2 [] c = "P" -> 3 [] c = "Q" -> 4
      [] c = "R" -> 5 [] c = "S" -> 6 [] c = "T" -> 7 [] c = "U" -> 8
      [] c = "V" -> 9 [] c = "W" -> 10 [] c = "X" -> 11 [] c = "Y" -> 12
      [] c = "Z" -> 0

atogmtoff(buffer, length) ==
    IF length = 5
    THEN LET result == ((D0(buffer, 1) * 10) + D0(buffer, 2)) * 60 * 60
                       + ((D0(buffer, 3) * 10) + D0(buffer, 4)) * 60
         IN  IF At(buffer, 0) = "-" THEN -result ELSE result
    ELSE IF length = 6
    THEN LET result == ((D0(buffer, 1) * 10) + D0(buffer, 2)) * 60 * 60
                       + ((D0(buffer, 4) * 10) + D0(buffer, 5)) * 60
         IN  IF At(buffer, 0) = "-" THEN -result ELSE result
    ELSE IF length = 1
    THEN IF At(buffer, 0) \in (Upper \ {"J"})
         THEN Military(At(buffer, 0)) * 60 * 60
         ELSE LONG_MIN
    ELSE IF length >= 2
    THEN CASE At(buffer, 0) \in {"U", "G"} -> 0
           [] At(buffer, 0) = "E" -> (IF At(buffer, 1) = "S" THEN -5 ELSE -4) * 60 * 60
           [] At(buffer, 0) = "C" -> (IF At(buffer, 1) = "S" THEN -6 ELSE -5) * 60 * 60
           [] At(buffer, 0) = "M" -> (IF At(buffer, 1) = "S" THEN -7 ELSE -6) * 60 * 60
           [] At(buffer, 0) = "P" -> (IF At(buffer, 1) = "S" THEN -8 ELSE -7) * 60 * 60
           [] OTHER -> LONG_MIN
    ELSE LONG_MIN

\* ------------------------------------------------- calendar (libc timegm)

\* memset(&tm, 0, sizeof(tm))
ZeroTm ==
    [tm_year |-> 0, tm_mon |-> 0, tm_mday |-> 0, tm_hour |-> 0, tm_min |-> 0,
     tm_sec |-> 0, tm_gmtoff |-> 0]

\* days from 1970-01-01 to the civil date y-m-d (proleptic Gregorian)
DaysFromCivil(y, m, d) ==
    LET yy == IF m <= 2 THEN y - 1 ELSE y
        era == yy \div 400
        yoe == yy - era * 400
        mp == IF m > 2 THEN m - 3 ELSE m + 9
        doy == (153 * mp + 2) \div 5 + d - 1
        doe == yoe * 365 + yoe \div 4 - yoe \div 100 + doy
    IN  era * 146097 + doe - 719468

\* timegm(&tm): the fields read as UTC, out-of-range fields carried over
timegm(tm) ==
    LET y == tm.tm_year + 1900 + (tm.tm_mon \div 12)
        m == (tm.tm_mon % 12) + 1
    IN  (DaysFromCivil(y, m, 1) + tm.tm_mday - 1) * 86400
        + tm.tm_hour * 3600 + tm.tm_min * 60 + tm.tm_sec

\* gmtime(t): the broken-down UTC time of epoch second t
CivilFromEpoch(t) ==
    LET days == t \div 86400
        rem == t % 86400
        z == days + 719468
        era == z \div 146097
        doe == z - era * 146097
        yoe == (doe - doe \div 1460 + doe \div 36524 - doe \div 146096) \div 365
        doy == doe - (365 * yoe + yoe \div 4 - yoe \div 100)
        mp == (5 * doy + 2) \div 153
        d == doy - (153 * mp + 2) \div 5 + 1
        m == IF mp < 10 THEN mp + 3 ELSE mp - 9
        y == yoe + era * 400 + (IF m <= 2 THEN 1 ELSE 0)
    IN  [tm_year |-> y - 1900, tm_mon |-> m - 1, tm_mday |-> d,
         tm_hour |-> rem \div 3600, tm_min |-> (rem % 3600) \div 60,
         tm_sec |-> rem % 60, tm_gmtoff |-> 0]

\* localtime_r(&t, &tm) in a zone that is tz seconds east of UTC
localtime_r(t, tz) == [CivilFromEpoch(t + tz) EXCEPT !.tm_gmtoff = tz]

\* --------------------------------------------------- platform strptime
\* glibc's strptime for the directives %% %Y %m %d %e %H %M %S %s, literal
\* bytes and white space; tz is the local zone's offset (used by %s, which
\* fills tm through localtime_r)

RECURSIVE SkipSpace(_, _)
SkipSpace(s, rp) ==
    IF rp < Len(s) /\ At(s, rp) \in Space THEN SkipSpace(s, rp + 1) ELSE rp

RECURSIVE NumLoop(_, _, _, _, _)
\* the do-while of get_number after a digit was consumed: n is __n
NumLoop(s, rp, val, n, to) ==
    IF n - 1 > 0 /\ val * 10 <= to /\ rp < Len(s) /\ At(s, rp) \in Digit
    THEN NumLoop(s, rp + 1, val * 10 + DigitVal(At(s, rp)), n - 1, to)
    ELSE [val |-> val, rp |-> rp]

\* get_number(from, to, n)
get_number(s, rp0, from, to, n) ==
    LET rp == SkipSpace(s, rp0) IN
    IF rp >= Len(s) \/ At(s, rp) \notin Digit
    THEN [ok |-> FALSE]
    ELSE LET r == NumLoop(s, rp + 1, DigitVal(At(s, rp)), n, to) IN
         IF r.val < from \/ r.val > to
         THEN [ok |-> FALSE]
         ELSE [ok |-> TRUE, val |-> r.val, rp |-> r.rp]

\* the end offset of the digit run that starts at rp
DigitsEnd(s, rp) == rp + RunLen(s, rp, Digit, Len(s))

RECURSIVE strptime_at(_, _, _, _, _, _)
strptime_at(s, rp, f, fi, tm, tz) ==
    IF fi >= Len(f)
    THEN [ok |-> TRUE, tm |-> tm]
    ELSE
      LET c == At(f, fi) IN
      IF c \in Space
      THEN strptime_at(s, SkipSpace(s, rp), f, fi + 1, tm, tz)
      ELSE IF c # "%"
      THEN IF rp < Len(s) /\ At(s, rp) = c
           THEN strptime_at(s, rp + 1, f, fi + 1, tm, tz)
           ELSE [ok |-> FALSE]
      ELSE IF fi + 1 >= Len(f)
      THEN [ok |-> FALSE]
      ELSE
        LET d == At(f, fi + 1)
            num(from, to, n) == get_number(s, rp, from, to, n)
            next(r, tm2) == IF r.ok THEN strptime_at(s, r.rp, f, fi + 2, tm2, tz)
                            ELSE [ok |-> FALSE]
        IN
        CASE d = "%" ->
               IF rp < Len(s) /\ At(s, rp) = "%"
               THEN strptime_at(s, rp + 1, f, fi + 2, tm, tz)
               ELSE [ok |-> FALSE]
          [] d \in {"d", "e"} ->
               LET r == num(1, 31, 2) IN
               next(r, [tm EXCEPT !.tm_mday = r.val])
          [] d = "H" ->
               LET r == num(0, 23, 2) IN
               next(r, [tm EXCEPT !.tm_hour = r.val])
          [] d = "m" ->
               LET r == num(1, 12, 2) IN
               next(r, [tm EXCEPT !.tm_mon = r.val - 1])
          [] d = "M" ->
               LET r == num(0, 59, 2) IN
               next(r, [tm EXCEPT !.tm_min = r.val])
          [] d = "S" ->
               LET r == num(0, 61, 2) IN
               next(r, [tm EXCEPT !.tm_sec = r.val])
          [] d = "Y" ->
               LET r == num(0, 9999, 4) IN
               next(r, [tm EXCEPT !.tm_year = r.val - 1900])
          [] d = "s" ->
               IF rp >= Len(s) \/ At(s, rp) \notin Digit
               THEN [ok |-> FALSE]
               ELSE LET e == DigitsEnd(s, rp) IN
                    strptime_at(s, e, f, fi + 2,
                                localtime_r(strtol(Slice(s, rp, e)), tz), tz)
          [] OTHER -> [ok |-> FALSE]

\* strptime(string, format, &tm) on a zeroed tm
strptime(string, format, tz) == strptime_at(string, 0, format, 0, ZeroTm, tz)

\* ------------------------------------------------------ datetime extractor

\* lines 584-593 of tg_strptime: the timestamp of the tm strptime filled
\* (r is strptime's outcome)
TmTimestamp(r, format_tz, tz) ==
    IF ~r.ok
    THEN [result |-> TG_NOT_FOUND, timestamp |-> 0]
    ELSE IF timegm(r.tm) - (IF format_tz = 0 THEN tz ELSE r.tm.tm_gmtoff) = -1
    THEN [result |-> TG_NOT_FOUND, timestamp |-> -1]
    ELSE [result |-> TG_FOUND,
          timestamp |-> timegm(r.tm)
                        - (IF format_tz = 0 THEN tz ELSE r.tm.tm_gmtoff)]

\* tg_strptime: tz is TG_TIMEZONE
tg_strptime(string, format, format_tz, tz) ==
    TmTimestamp(strptime(string, format, tz), format_tz, tz)

\* the test of lines 836-839 that selects the offset: TRUE for TG_TIMEZONE
UseLocalOffset(re_opt) == re_opt.has_timezone = 0

\* lines 788-834: one named group decoded into its field of tm, when the
\* group exists (number >= 0); text is the group's substring
WithYear(tm, number, text) ==
    IF number >= 0 THEN [tm EXCEPT !.tm_year = tg_atoi(text) - 1900] ELSE tm
WithMonth(tm, number, text) ==
    IF number >= 0 THEN [tm EXCEPT !.tm_mon = tg_atoi(text) - 1] ELSE tm
WithMonthT(tm, number, text) ==
    IF number >= 0 THEN [tm EXCEPT !.tm_mon = tg_atom(text, Len(text))] ELSE tm
WithDay(tm, number, text) ==
    IF number >= 0 THEN [tm EXCEPT !.tm_mday = tg_atoi(text)] ELSE tm
WithHour(tm, number, text) ==
    IF number >= 0 THEN [tm EXCEPT !.tm_hour = tg_atoi(text)] ELSE tm
WithMinute(tm, number, text) ==
    IF number >= 0 THEN [tm EXCEPT !.tm_min = tg_atoi(text)] ELSE tm
WithSecond(tm, number, text) ==
    IF number >= 0 THEN [tm EXCEPT !.tm_sec = tg_atoi(text)] ELSE tm
WithTimezone(tm, number, text) ==
    IF number >= 0 THEN [tm EXCEPT !.tm_gmtoff = atogmtoff(text, Len(text))]
    ELSE tm

\* the tm tg_strptime_re fills from the groups of match m
GroupsTm(string, m, re_opt) ==
    WithTimezone(
      WithSecond(
        WithMinute(
          WithHour(
            WithDay(
              WithMonthT(
                WithMonth(
                  WithYear(ZeroTm, re_opt.has_year,
                           pcre_copy_substring(string, m, re_opt.has_year)),
                  re_opt.has_month,
                  pcre_copy_substring(string, m, re_opt.has_month)),
                re_opt.has_month_t,
                pcre_copy_substring(string, m, re_opt.has_month_t)),
              re_opt.has_day,
              pcre_copy_substring(string, m, re_opt.has_day)),
            re_opt.has_hour,
            pcre_copy_substring(string, m, re_opt.has_hour)),
          re_opt.has_minute,
          pcre_copy_substring(string, m, re_opt.has_minute)),
        re_opt.has_second,
        pcre_copy_substring(string, m, re_opt.has_second)),
      re_opt.has_timezone,
      pcre_copy_substring(string, m, re_opt.has_timezone))

\* lines 836-844: the timestamp of the filled tm
GroupsTimestamp(tm, re_opt, tz) ==
    IF timegm(tm) - (IF UseLocalOffset(re_opt) THEN tz ELSE tm.tm_gmtoff) = -1
    THEN [result |-> TG_NOT_FOUND, timestamp |-> -1]
    ELSE [result |-> TG_FOUND,
          timestamp |-> timegm(tm)
                        - (IF UseLocalOffset(re_opt) THEN tz ELSE tm.tm_gmtoff)]

\* tg_strptime_re: m is the match of pcre_exec on string, tz is TG_TIMEZONE
tg_strptime_re(string, m, re_opt, tz) ==
    IF re_opt.has_timestamp >= 0
    THEN [result |-> TG_FOUND,
          timestamp |-> strtol(pcre_copy_substring(string, m,
                                                   re_opt.has_timestamp))]
    ELSE GroupsTimestamp(GroupsTm(string, m, re_opt), re_opt, tz)

\* TG_FORMATS[0].format
DefaultFormat ==
    <<"%","Y","-","%","m","-","%","d"," ","%","H",":","%","M",":","%","S">>

\* the formats tg_strptime_heuristic tries, in order
HeuristicFormats ==
    << DefaultFormat,
       <<"%","Y","-","%","m","-","%","d">>,
       <<"%","Y","/","%","m","/","%","d">>,
       <<"%","Y",".","%","m",".","%","d">>,
       <<"%","d","-","%","m","-","%","Y">>,
       <<"%","d","/","%","m","/","%","Y">>,
       <<"%","d",".","%","m",".","%","Y">> >>

\* the format tried first is not looked at
LaterFound(r, rest) == rest

\* the first hit wins: r is the outcome of the format tried, rest that of
\* the formats after it
FirstFound(r, rest) == IF r.result = TG_FOUND THEN r ELSE rest

RECURSIVE HeuristicFrom(_, _, _)
HeuristicFrom(string, k, tz) ==
    IF k > Len(HeuristicFormats)
    THEN [result |-> TG_NOT_FOUND, timestamp |-> 0]
    ELSE FirstFound(tg_strptime(string, HeuristicFormats[k], 0, tz),
                    HeuristicFrom(string, k + 1, tz))

tg_strptime_heuristic(string, tz) == HeuristicFrom(string, 1, tz)

\* lines 896-913 of get_timestamp: m is the outcome of pcre_exec
MatchTimestamp(string, m, re_ctx, tz) ==
    IF ~m.ok
    THEN [result |-> TG_NOT_FOUND, timestamp |-> 0]
    ELSE IF re_ctx.re_opt.fallback # 0
    THEN tg_strptime(Slice(string, m.st, m.en), re_ctx.format,
                     re_ctx.re_opt.has_timezone, tz)
    ELSE tg_strptime_re(string, m, re_ctx.re_opt, tz)

\* get_timestamp(string, length, re, re_extra, re_opt, format, &timestamp):
\* re_ctx is the pcre_context, tz is TG_TIMEZONE
get_timestamp(string, re_ctx, tz) ==
    MatchTimestamp(string, pcre_exec(re_ctx.re, string), re_ctx, tz)

\* ------------------------------------------------------ parser context

\* lines 1455-1465: the has_* fields become group numbers when fallback = 0
ResolveGroups(re, re_opt) ==
    IF re_opt.fallback = 0
    THEN [re_opt EXCEPT
            !.has_year = pcre_get_stringnumber(re, "year"),
            !.has_month = pcre_get_stringnumber(re, "month"),
            !.has_month_t = pcre_get_stringnumber(re, "month_t"),
            !.has_day = pcre_get_stringnumber(re, "day"),
            !.has_hour = pcre_get_stringnumber(re, "hour"),
            !.has_minute = pcre_get_stringnumber(re, "minute"),
            !.has_second = pcre_get_stringnumber(re, "second"),
            !.has_timezone = pcre_get_stringnumber(re, "timezone"),
            !.has_timestamp = pcre_get_stringnumber(re, "timestamp")]
    ELSE re_opt

\* the pcre_context built from what strptime_regex returned for format
Compiled(format, pass) ==
    [re |-> pass.regex, re_opt |-> ResolveGroups(pass.regex, pass.re_opt),
     format |-> format]

\* lines 1416-1465 for a format the compiler accepts: the pcre_context
CompileContext(format) == Compiled(format, strptime_regex(format, ZeroOpt))

\* the context before parse_options compiled anything (memset in main)
NullContext == [re |-> <<>>, re_opt |-> ZeroOpt, format |-> <<>>]

\* ----------------------------------------------------------- line locator

\* offsets of the newlines of data
Newlines(data) == {i \in 0..(Len(data) - 1) : At(data, i) = NL}


\* the line from the position itself on, whatever precedes it
LineFrom(size, before, after) ==
    [start |-> IF before = {} THEN 0 ELSE MaxOf(before),
     length |-> (IF after = {} THEN size ELSE MinOf(after))
                - (IF before = {} THEN 0 ELSE MaxOf(before))]

\* lines 958-968 of get_string: the line around position, given the offsets
\* of the newlines before it and from it on
LineAround(size, before, after) ==
    [start |-> IF before = {} THEN 0 ELSE MaxOf(before) + 1,
     length |-> (IF after = {} THEN size ELSE MinOf(after))
                - (IF before = {} THEN 0 ELSE MaxOf(before) + 1)]

\* get_string without the test of lines 970-971
LocatedAlways(size, line) ==
    [result |-> TG_FOUND, start |-> line.start, length |-> line.length]

\* lines 970-973 of get_string: a line as long as the data is no line
Located(size, line) ==
    [result |-> IF line.length = size THEN TG_NULL ELSE TG_FOUND,
     start |-> line.start, length |-> line.length]

get_string(data, size, position) ==
    IF At(data, position) = NL
    THEN [result |-> TG_NOT_FOUND, start |-> 0, length |-> 0]
    ELSE Located(size,
                 LineAround(size,
                            {i \in Newlines(data) : i < position},
                            {i \in Newlines(data) : i >= position /\ i < size}))

\* -------------------------------------------------------- forward scanner

\* where the scanner continues after a line [start, start + length) that
\* yielded no timestamp: line 1016 and then line 1020
AfterUnparsedLine(start, length) == start + length + 1 + 1

RECURSIVE forward_search(_, _, _, _, _, _)

\* lines 1006-1019: the line str was located and ts is what get_timestamp
\* made of it
ScanParsed(data, size, ubound, re_ctx, tz, str, ts) ==
    IF ts.result = TG_NOT_FOUND
    THEN forward_search(data, size, AfterUnparsedLine(str.start, str.length),
                        ubound, re_ctx, tz)
    ELSE [result |-> ts.result, start |-> str.start, length |-> str.length,
          timestamp |-> ts.timestamp]

\* lines 1004-1024: str is what get_string returned at position
ScanLocated(data, size, position, ubound, re_ctx, tz, str) ==
    IF str.result = TG_FOUND
    THEN ScanParsed(data, size, ubound, re_ctx, tz, str,
                    get_timestamp(Slice(data, str.start, str.start + str.length),
                                  re_ctx, tz))
    ELSE IF str.result = TG_NULL
    THEN [result |-> TG_NULL, start |-> 0, length |-> 0, timestamp |-> 0]
    ELSE forward_search(data, size, position + 1, ubound, re_ctx, tz)

\* the while loop of forward_search entered with result = TG_NOT_FOUND
forward_search(data, size, position, ubound, re_ctx, tz) ==
    IF ~(position < ubound)
    THEN [result |-> TG_NOT_FOUND, start |-> 0, length |-> 0, timestamp |-> 0]
    ELSE ScanLocated(data, size, position, ubound, re_ctx, tz,
                     get_string(data, size, position))

RECURSIVE ScanReads(_, _, _, _, _, _)

\* lines 1004-1020: the positions read after get_string returned str at
\* position, none when the loop ends there
ScanOn(data, size, position, ubound, re_ctx, tz, str) ==
    IF str.result = TG_NOT_FOUND
    THEN ScanReads(data, size, position + 1, ubound, re_ctx, tz)
    ELSE IF /\ str.result = TG_FOUND
            /\ get_timestamp(Slice(data, str.start, str.start + str.length),
                             re_ctx, tz).result = TG_NOT_FOUND
    THEN ScanReads(data, size, AfterUnparsedLine(str.start, str.length),
                   ubound, re_ctx, tz)
    ELSE {}

\* the positions at which the loop of forward_search reads data[position]
\* (lines 1001-1002, 955)
ScanReads(data, size, position, ubound, re_ctx, tz) ==
    IF ~(position < ubound)
    THEN {}
    ELSE {position}
         \cup ScanOn(data, size, position, ubound, re_ctx, tz,
                     IF position < size
                     THEN get_string(data, size, position)
                     ELSE [result |-> TG_NULL, start |-> 0, length |-> 0])

\* --------------------------------------------------------- binary searcher

\* size_t is unsigned; the model keeps 16 bits of it
SIZE_MOD == 65536

\* (a - b) / 2 in size_t arithmetic
HalfDiff(a, b) == ((a - b) % SIZE_MOD) \div 2

\* lines 1058-1060
BsInit(size, lbound) ==
    [result |-> TG_NULL, lbound |-> lbound, ubound |-> size,
     middle |-> (lbound + HalfDiff(size, lbound)) % SIZE_MOD, brk |-> FALSE]

\* the lower bound moved past the line without the test of line 1081
LboundPast(start, length, ubound) == start + length + 1

\* the lower bound after a probe found a line [start, start + length) whose
\* timestamp is below the searched one (lines 1079-1082)
LboundAfter(start, length, ubound) ==
    IF start + length # ubound THEN start + length + 1 ELSE start + length

\* the result binary_search keeps after a probe (line 1063)
BsResult(prev, probe) == probe

\* the middle left where it is
HalfwayStuck(lbound, middle) == middle

\* lbound + (middle - lbound) / 2 in size_t arithmetic (line 1092)
Halfway(lbound, middle) == (lbound + HalfDiff(middle, lbound)) % SIZE_MOD

\* lines 1076-1092: the bounds after the probe that forward_search returned
BsProbed(search, bs, probe) ==
    IF probe.result = TG_FOUND
    THEN IF probe.timestamp < search
         THEN [bs EXCEPT
                 !.result = BsResult(bs.result, probe.result),
                 !.lbound = LboundAfter(probe.start, probe.length, bs.ubound),
                 !.middle = Halfway(LboundAfter(probe.start, probe.length,
                                                bs.ubound), bs.ubound)]
         ELSE [bs EXCEPT
                 !.result = BsResult(bs.result, probe.result),
                 !.ubound = probe.start,
                 !.middle = Halfway(bs.lbound, probe.start)]
    ELSE IF probe.result = TG_NOT_FOUND
    THEN [bs EXCEPT !.result = BsResult(bs.result, probe.result),
                    !.ubound = bs.middle,
                    !.middle = Halfway(bs.lbound, bs.middle)]
    ELSE [bs EXCEPT !.result = BsResult(bs.result, probe.result),
                    !.brk = TRUE]

\* one iteration of the while loop of binary_search (lines 1063-1092)
BsIter(data, size, search, re_ctx, tz, bs) ==
    BsProbed(search, bs,
             forward_search(data, size, bs.middle, bs.ubound, re_ctx, tz))

\* the loop test of line 1062 (and the break of line 1090)
BsRunning(bs) == bs.lbound # bs.middle /\ ~bs.brk

RECURSIVE BsLoop(_, _, _, _, _, _)
BsLoop(data, size, search, re_ctx, tz, bs) ==
    IF BsRunning(bs)
    THEN BsLoop(data, size, search, re_ctx, tz,
                BsIter(data, size, search, re_ctx, tz, bs))
    ELSE bs

\* lines 1095-1098: what binary_search hands back from its final locals
BsOutcome(bs) == [result |-> bs.result, position |-> bs.lbound]

\* binary_search(data, size, lbound, search, ...): result and *position
binary_search(data, size, lbound, search, re_ctx, tz) ==
    BsOutcome(BsLoop(data, size, search, re_ctx, tz, BsInit(size, lbound)))

\* ------------------------------------------------------------ file emitter

\* how file_timegrep goes on after its second search returned `res` with
\* *position = pos (lines 1155-1156): the result it returns at once, or
\* TG_FOUND to go on writing up to `ubound`
SecondSearch(res, pos, size) ==
    IF res # TG_FOUND
    THEN [result |-> res, ubound |-> 0]
    ELSE [result |-> TG_FOUND, ubound |-> pos]

\* does file_timegrep write a final newline (line 1179)
FinalNewline(data, size, ubound) == ubound = size

\* the count file_timegrep asks write() for (lines 1160-1162)
WriteRequest(lbound, ubound) ==
    IF lbound + TG_CHUNK_SIZE >= ubound THEN ubound - lbound ELSE TG_CHUNK_SIZE

\* lines 1159-1182: the bytes written for the range [lbound, nxt.ubound)
Written(data, size, lbound, nxt) ==
    IF nxt.result # TG_FOUND
    THEN [result |-> nxt.result, out |-> <<>>]
    ELSE [result |-> TG_FOUND,
          out |-> (IF lbound < nxt.ubound
                   THEN Slice(data, lbound, nxt.ubound) ELSE <<>>)
                  \o (IF FinalNewline(data, size, nxt.ubound)
                      THEN <<NL>> ELSE <<>>)]

\* lines 1145-1182: hi is what the second binary_search returned
AfterSecond(data, size, lbound, hi) ==
    Written(data, size, lbound, SecondSearch(hi.result, hi.position, size))

\* lines 1140-1157: lo is what the first binary_search returned
AfterFirst(data, size, stop, re_ctx, tz, lo) ==
    IF lo.result # TG_FOUND
    THEN [result |-> lo.result, out |-> <<>>]
    ELSE AfterSecond(data, size, lo.position,
                     binary_search(data, size, lo.position, stop, re_ctx, tz))

\* file_timegrep as a function of its arguments when every write succeeds:
\* its return value and the bytes it writes (lines 1128-1182)
file_timegrep(data, size, start, stop, re_ctx, tz) ==
    AfterFirst(data, size, stop, re_ctx, tz,
               binary_search(data, size, 0, start, re_ctx, tz))

\* ------------------------------------------------------------ command line
\* The options are a sequence of records [opt, arg] in command-line order;
\* opt is the value getopt_long returns ("e", "f", "t", "s", "m", "h", "v",
\* "?"), arg is optarg.

\* a NULL pointer where the model has a string
Null == <<"NULL">>

\* TG_FORMATS (lines 81-109): name, alias, format
TG_FORMATS ==
    << [name |-> <<"d","e","f","a","u","l","t">>, alias |-> Null,
        format |-> DefaultFormat],
       [name |-> <<"i","s","o">>, alias |-> Null,
        format |-> <<"%","Y","-","%","m","-","%","d","T",
                     "%","H",":","%","M",":","%","S","%","z">>],
       [name |-> <<"c","o","m","m","o","n">>, alias |-> Null,
        format |-> <<"%","d","/","%","b","/","%","Y",":",
                     "%","H",":","%","M",":","%","S"," ","%","z">>],
       [name |-> <<"s","y","s","l","o","g">>, alias |-> Null,
        format |-> <<"%","b"," ","%","d"," ","%","H",":","%","M",":","%","S">>],
       [name |-> <<"t","s","k","v">>, alias |-> Null,
        format |-> <<"u","n","i","x","t","i","m","e","=","%","s">>],
       [name |-> <<"a","p","a","c","h","e">>,
        alias |-> <<"c","o","m","m","o","n">>, format |-> Null],
       [name |-> <<"n","g","i","n","x">>,
        alias |-> <<"c","o","m","m","o","n">>, format |-> Null] >>

RECURSIVE LookupFormat(_, _)
\* the while loop of lines 1397-1412, index is 1-based here
LookupFormat(format, index) ==
    IF index > Len(TG_FORMATS)
    THEN format
    ELSE IF format = TG_FORMATS[index].name
    THEN IF TG_FORMATS[index].alias # Null
         THEN LookupFormat(TG_FORMATS[index].alias, 1)
         ELSE TG_FORMATS[index].format
    ELSE LookupFormat(format, index + 1)

\* strtol(string, NULL, 10) with an optional sign
SignedValue(string) ==
    IF Len(string) > 0 /\ string[1] = "-"
    THEN -DecimalValue(string, 2, 0)
    ELSE DecimalValue(string, 1, 0)

\* lines 242-248 of parse_interval: value is what strtol returned
Interval(value, multipler) ==
    IF value < 0 \/ value = INT_MAX THEN LONG_MIN ELSE value * multipler

parse_interval(string, multipler) == Interval(SignedValue(string), multipler)

\* every interval counted in seconds
MultiplerOne(opt) == 1

\* the multiplier of the interval options (lines 1367, 1373, 1379)
Multipler(opt) == CASE opt = "s" -> 1 [] opt = "m" -> 60 [] opt = "h" -> 60 * 60

RECURSIVE OptLoop(_, _, _)
\* the getopt_long loop (lines 1338-1394) from option i on; o holds format,
\* from, to, offset; exit is "break", "SUCCESS" or "ERROR"
OptLoop(av, i, o) ==
    IF i > Len(av)
    THEN [o EXCEPT !.exit = "break"]
    ELSE LET option == av[i].opt
             optarg == av[i].arg
         IN  CASE option = "e" -> OptLoop(av, i + 1, [o EXCEPT !.format = optarg])
               [] option = "f" -> OptLoop(av, i + 1, [o EXCEPT !.from = optarg])
               [] option = "t" -> OptLoop(av, i + 1, [o EXCEPT !.to = optarg])
               [] option \in {"s", "m", "h"} ->
                    IF parse_interval(optarg, Multipler(option)) = LONG_MIN
                    THEN [o EXCEPT !.exit = "ERROR"]
                    ELSE OptLoop(av, i + 1,
                                 [o EXCEPT !.offset =
                                    @ + parse_interval(optarg, Multipler(option))])
               [] OTHER -> [o EXCEPT !.exit = "SUCCESS"]

\* lines 1467-1481: a boundary argument parsed with the format, then with
\* the heuristic cascade
ParseBoundary(string, re_ctx, tz) ==
    FirstFound(tg_strptime(string, re_ctx.format, re_ctx.re_opt.has_timezone,
                           tz),
               tg_strptime_heuristic(string, tz))

\* what parse_options hands back: its return value, the pcre_context, whether
\* ctx->re_ctx.re was set, ctx->start and ctx->stop
Parsed(res, re_ctx, compiled, start, stop) ==
    [result |-> res, re_ctx |-> re_ctx, compiled |-> compiled,
     start |-> start, stop |-> stop]

\* lines 1475-1485: from is the outcome for the lower boundary
WithStart(re_ctx, stop, from) ==
    IF from.result = TG_NOT_FOUND
    THEN Parsed(TG_ERROR, re_ctx, TRUE, 0, stop)
    ELSE Parsed(TG_FOUND, re_ctx, TRUE, from.timestamp, stop)

\* lines 1467-1481: to is the outcome for the upper boundary
WithStop(o, re_ctx, tz, to) ==
    IF to.result = TG_NOT_FOUND
    THEN Parsed(TG_ERROR, re_ctx, TRUE, 0, 0)
    ELSE WithStart(re_ctx, to.timestamp,
                   IF o.from = Null
                   THEN [result |-> TG_FOUND,
                         timestamp |-> to.timestamp - o.offset]
                   ELSE ParseBoundary(o.from, re_ctx, tz))

\* lines 1433-1481: the format compiled into re_ctx
WithContext(o, re_ctx, tz, clock) ==
    WithStop(o, re_ctx, tz,
             IF o.to = Null
             THEN [result |-> TG_FOUND, timestamp |-> clock]
             ELSE ParseBoundary(o.to, re_ctx, tz))

\* the return value of strptime_regex not looked at
WithRegexUnchecked(o, format, pass, tz, clock) ==
    WithContext(o, Compiled(format, pass), tz, clock)

\* lines 1416-1431: pass is what strptime_regex returned for format
WithRegex(o, format, pass, tz, clock) ==
    IF pass.ret = TG_ERROR
    THEN Parsed(TG_ERROR,
                [re |-> <<>>, re_opt |-> pass.re_opt, format |-> format],
                FALSE, 0, 0)
    ELSE WithContext(o, Compiled(format, pass), tz, clock)

\* lines 1396-1481: the format looked up in TG_FORMATS
WithFormat(o, format, tz, clock) ==
    WithRegex(o, format, strptime_regex(format, ZeroOpt), tz, clock)

\* the context while only ctx->re_ctx.format may be set
Named(format) ==
    IF format = Null THEN NullContext
    ELSE [NullContext EXCEPT !.format = format]

\* lines 1396-1485: o is what the option loop left
WithOptions(o, tz, clock) ==
    IF o.exit = "SUCCESS" THEN Parsed(TG_NOT_FOUND, Named(o.format), FALSE, 0, 0)
    ELSE IF o.exit = "ERROR" THEN Parsed(TG_ERROR, Named(o.format), FALSE, 0, 0)
    ELSE WithFormat(o,
                    IF o.format # Null THEN LookupFormat(o.format, 1)
                    ELSE TG_FORMATS[1].format,
                    tz, clock)

\* parse_options: av are the options, tz is TG_TIMEZONE, clock is time(NULL)
parse_options(av, tz, clock) ==
    WithOptions(OptLoop(av, 1, [format |-> Null, from |-> Null, to |-> Null,
                                offset |-> 0, exit |-> "break"]),
                tz, clock)

\* =================================================================== state

MAP_FAILED == <<"MAP_FAILED">>
STDIN_FILENO == 0
\* the descriptor open() returns while no other file is open
FILE_FD == 3

VARIABLES
    argv,          \* the options of the command line, in order
    input,         \* the whole content of standard input
    TG_TIMEZONE,   \* the global set by set_timezone()
    now,           \* what time(NULL) returns
    argc_files,    \* file arguments not yet taken (argc - optind)
    rdpos,         \* bytes of standard input consumed by read()
    pc,            \* position of the program
    result,        \* main's `result`
    ctx,           \* tg_context: [fd, size, data, start, stop, re_ctx]
    os,            \* what the process holds: [fds, maps, re, searched] and
                   \* fault, whether a system call was made to fail
    stdout,        \* every byte written to standard output, in order
    fileout,       \* the bytes the running emitter call wrote
    taken,         \* per file argument taken so far: [size, wrote]
    bs,            \* locals of binary_search
    fl,            \* locals of file_timegrep: [result, lbound, ubound]
    st,            \* locals of stream_timegrep
    exit_code,     \* the value main returns, NoExit while running
    call           \* a search function called on its own: its name, its
                   \* arguments [position, ubound, search] and what it returned

\* set before the program starts and never written by it
env == <<argv, input, TG_TIMEZONE, now>>

vars == <<argv, input, TG_TIMEZONE, now, argc_files, rdpos, pc, result, ctx, os,
          stdout, fileout, taken, bs, fl, st, exit_code, call>>

\* main before parse_options: memset(&ctx, 0), fd = -1, data = MAP_FAILED
ZeroCtx ==
    [fd |-> -1, size |-> 0, data |-> MAP_FAILED, start |-> 0, stop |-> 0,
     re_ctx |-> NullContext]

\* no descriptor opened, nothing mapped, no regex compiled, nothing searched
ZeroOs ==
    [fds |-> {}, maps |-> 0, re |-> "null", searched |-> FALSE,
     fault |-> FALSE]

\* the size noted for a file argument that could not be opened or examined
NoSize == -1

\* one more file argument taken
Taken(size) == Append(taken, [size |-> size, wrote |-> FALSE])

NoBs == BsInit(0, 0)
\* no search function is called on its own
NoCall == [fn |-> "main"]
NoFl == [result |-> TG_NULL, lbound |-> 0, ubound |-> 0]
\* char* data = NULL, size = 0, lbound = 0, ubound = 0, stream = 0
NoSt ==
    [data |-> <<>>, size |-> 0, lbound |-> 0, ubound |-> 0, stream |-> 0,
     length |-> 0, timestamp |-> 0, parsed |-> TG_NULL, result |-> TG_NULL]

\* exit_code while main has not returned
NoExit == -1

\* ------------------------------------------------------ main: parse_options

\* lines 1520-1525: main branches on what parse_options returned
Parsing(r) ==
    /\ ctx' = [ZeroCtx EXCEPT !.start = r.start, !.stop = r.stop,
                              !.re_ctx = r.re_ctx]
    /\ os' = [os EXCEPT !.re = IF r.compiled THEN "compiled" ELSE @]
    /\ result' = (IF r.result = TG_NOT_FOUND THEN 0 ELSE r.result)
    /\ pc' = (IF r.result = TG_NOT_FOUND THEN "success"
              ELSE IF r.result = TG_ERROR THEN "error" ELSE "dispatch")

\* lines 1513-1525: parse_options runs and returns
ParseOptions ==
    /\ pc = "parse_options"
    /\ Parsing(parse_options(argv, TG_TIMEZONE, now))
    /\ UNCHANGED <<env, call, argc_files, rdpos, stdout, fileout, taken, bs, fl,
                   st, exit_code>>

\* lines 1418-1424, 1487-1489 as seen from main: the format compiled in the
\* first pass (r) and malloc returned NULL for the regex text
OutOfMemory(r) ==
    /\ r.compiled
    /\ ctx' = [ZeroCtx EXCEPT !.re_ctx =
                 [re |-> <<>>,
                  re_opt |-> strptime_regex(r.re_ctx.format, ZeroOpt).re_opt,
                  format |-> r.re_ctx.format]]

\* parse_options fails on malloc
ParseOptionsNoMem ==
    /\ pc = "parse_options"
    /\ OutOfMemory(parse_options(argv, TG_TIMEZONE, now))
    /\ result' = TG_ERROR
    /\ pc' = "error"
    /\ os' = [os EXCEPT !.fault = TRUE]
    /\ UNCHANGED <<env, call, argc_files, rdpos, stdout, fileout, taken, bs, fl,
                   st, exit_code>>

\* ------------------------------------------------- main: the file arguments

\* line 1527: files or standard input
Dispatch ==
    /\ pc = "dispatch"
    /\ os' = [os EXCEPT !.searched = TRUE]
    /\ IF argc_files > 0
       THEN pc' = "file_loop" /\ ctx' = ctx
       ELSE pc' = "stream_timegrep" /\ ctx' = [ctx EXCEPT !.fd = STDIN_FILENO]
    /\ UNCHANGED <<env, call, argc_files, rdpos, result, stdout, fileout, taken,
                   bs, fl, st, exit_code>>

\* mmap(NULL, size, ...) fails for a zero length (EINVAL)
MmapOk(size) == size > 0

\* lines 1528-1533: the next file argument cannot be opened
OpenFails ==
    /\ pc = "file_loop" /\ argc_files > 0
    /\ argc_files' = argc_files - 1
    /\ ctx' = [ctx EXCEPT !.fd = -1]
    /\ pc' = "error"
    /\ os' = [os EXCEPT !.fault = TRUE]
    /\ taken' = Taken(NoSize)
    /\ UNCHANGED <<env, call, rdpos, result, stdout, fileout, bs, fl, st,
                   exit_code>>

\* lines 1535-1536: fstat fails on the open descriptor
FstatFails ==
    /\ pc = "file_loop" /\ argc_files > 0
    /\ argc_files' = argc_files - 1
    /\ ctx' = [ctx EXCEPT !.fd = FILE_FD]
    /\ os' = [os EXCEPT !.fds = @ \cup {FILE_FD}, !.fault = TRUE]
    /\ pc' = "error"
    /\ taken' = Taken(NoSize)
    /\ UNCHANGED <<env, call, rdpos, result, stdout, fileout, bs, fl, st,
                   exit_code>>

\* lines 1538-1542: mmap returns MAP_FAILED for the file's content
MmapFails(content) ==
    /\ pc = "file_loop" /\ argc_files > 0
    /\ argc_files' = argc_files - 1
    /\ ctx' = [ctx EXCEPT !.fd = FILE_FD, !.size = Len(content),
                          !.data = MAP_FAILED]
    /\ os' = [os EXCEPT !.fds = @ \cup {FILE_FD},
                      !.fault = @ \/ MmapOk(Len(content))]
    /\ pc' = "error"
    /\ taken' = Taken(Len(content))
    /\ UNCHANGED <<env, call, rdpos, result, stdout, fileout, bs, fl, st,
                   exit_code>>

\* lines 1529-1545: open, fstat, mmap and close succeed
MapFile(content) ==
    /\ pc = "file_loop" /\ argc_files > 0
    /\ MmapOk(Len(content))
    /\ argc_files' = argc_files - 1
    /\ ctx' = [ctx EXCEPT !.fd = -1, !.size = Len(content), !.data = content]
    /\ os' = [os EXCEPT !.maps = @ + 1]
    /\ pc' = "file_timegrep"
    /\ taken' = Taken(Len(content))
    /\ UNCHANGED <<env, call, rdpos, result, stdout, fileout, bs, fl, st,
                   exit_code>>

\* line 1528: no file argument is left
FilesDone ==
    /\ pc = "file_loop" /\ argc_files = 0
    /\ pc' = "after"
    /\ UNCHANGED <<env, call, argc_files, rdpos, result, ctx, os, stdout,
                   fileout, taken, bs, fl, st, exit_code>>

\* ----------------------------------------------------------- file_timegrep

\* entry of file_timegrep and of its first binary_search (lines 1128, 1058)
FileBegin ==
    /\ pc = "file_timegrep"
    /\ bs' = BsInit(ctx.size, 0)
    /\ fl' = NoFl
    /\ fileout' = <<>>
    /\ pc' = "bs1"
    /\ UNCHANGED <<env, call, argc_files, rdpos, result, ctx, os, stdout, taken,
                   st, exit_code>>

\* one iteration of the loop of binary_search
BsStep ==
    /\ pc \in {"bs1", "bs2"}
    /\ BsRunning(bs)
    /\ bs' = BsIter(ctx.data, ctx.size,
                    IF pc = "bs1" THEN ctx.start ELSE ctx.stop,
                    ctx.re_ctx, TG_TIMEZONE, bs)
    /\ UNCHANGED <<env, call, argc_files, rdpos, pc, result, ctx, os, stdout,
                   fileout, taken, fl, st, exit_code>>

\* the first binary_search returns (lines 1095-1098, 1140-1143)
BsReturn1 ==
    /\ pc = "bs1"
    /\ ~BsRunning(bs)
    /\ IF bs.result # TG_FOUND
       THEN /\ fl' = [fl EXCEPT !.result = bs.result]
            /\ pc' = "file_ret"
            /\ bs' = bs
       ELSE /\ fl' = [fl EXCEPT !.lbound = bs.lbound]
            /\ bs' = BsInit(ctx.size, bs.lbound)
            /\ pc' = "bs2"
    /\ UNCHANGED <<env, call, argc_files, rdpos, result, ctx, os, stdout,
                   fileout, taken, st, exit_code>>

\* the second binary_search returns (lines 1095-1098, 1155-1158)
BsReturn2 ==
    /\ pc = "bs2"
    /\ ~BsRunning(bs)
    /\ LET nxt == SecondSearch(bs.result, bs.lbound, ctx.size) IN
       IF nxt.result # TG_FOUND
       THEN /\ fl' = [fl EXCEPT !.result = nxt.result]
            /\ pc' = "file_ret"
       ELSE /\ fl' = [fl EXCEPT !.ubound = nxt.ubound]
            /\ pc' = "file_write"
    /\ UNCHANGED <<env, call, argc_files, rdpos, result, ctx, os, stdout,
                   fileout, taken, bs, st, exit_code>>

\* one pass of the write loop: write() takes `actual` bytes (lines 1159-1177)
FileWrite(actual) ==
    /\ pc = "file_write"
    /\ fl.lbound < fl.ubound
    /\ actual \in 1..WriteRequest(fl.lbound, fl.ubound)
    /\ stdout' = stdout \o Slice(ctx.data, fl.lbound, fl.lbound + actual)
    /\ fileout' = fileout \o Slice(ctx.data, fl.lbound, fl.lbound + actual)
    /\ fl' = [fl EXCEPT !.lbound = fl.lbound + actual]
    /\ UNCHANGED <<env, call, argc_files, rdpos, pc, result, ctx, os, taken, bs,
                   st, exit_code>>

\* write() returns -1 in the write loop or for the final newline
FileWriteFails ==
    /\ pc = "file_write"
    /\ fl.lbound < fl.ubound \/ FinalNewline(ctx.data, ctx.size, fl.ubound)
    /\ fl' = [fl EXCEPT !.result = TG_ERROR]
    /\ pc' = "file_ret"
    /\ os' = [os EXCEPT !.fault = TRUE]
    /\ UNCHANGED <<env, call, argc_files, rdpos, result, ctx, stdout, fileout,
                   taken, bs, st, exit_code>>

\* the end of the write loop, the final newline and return (lines 1179-1182)
FileFinish ==
    /\ pc = "file_write"
    /\ ~(fl.lbound < fl.ubound)
    /\ LET tail == IF FinalNewline(ctx.data, ctx.size, fl.ubound)
                   THEN <<NL>> ELSE <<>>
       IN  /\ stdout' = stdout \o tail
           /\ fileout' = fileout \o tail
    /\ fl' = [fl EXCEPT !.result = TG_FOUND]
    /\ pc' = "file_ret"
    /\ UNCHANGED <<env, call, argc_files, rdpos, result, ctx, os, taken, bs, st,
                   exit_code>>

\* main's `result` after file_timegrep returned r for one more file
\* (line 1547), given the result it held before
MainResult(prev, r) == r

\* main after file_timegrep returned (lines 1547-1562)
FileReturn ==
    /\ pc = "file_ret"
    /\ result' = MainResult(result, fl.result)
    /\ taken' = [taken EXCEPT ![Len(taken)].wrote = fileout # <<>>]
    /\ IF fl.result = TG_ERROR
       THEN pc' = "error" /\ ctx' = ctx /\ os' = os
       ELSE /\ pc' = "file_loop"
            /\ ctx' = [ctx EXCEPT !.data = MAP_FAILED]
            /\ os' = [os EXCEPT !.maps = @ - 1]
    /\ bs' = NoBs
    /\ fl' = NoFl
    /\ UNCHANGED <<env, call, argc_files, rdpos, stdout, fileout, st,
                   exit_code>>

\* --------------------------------------------------------- stream_timegrep

\* the byte an allocated but never written cell of the frame holds
Junk == "?"

\* memchr(data + from, '\n', n): offset of the first newline, or -1
memchr(data, from, n) ==
    LET hits == {i \in from..(from + n - 1) : At(data, i) = NL} IN
    IF hits = {} THEN -1 ELSE MinOf(hits)

\* the frame grown only when no byte of it is free
GrownWhenFull(data, size, ubound) ==
    IF size - ubound < 1
    THEN data \o [k \in 1..(TG_CHUNK_SIZE * 2) |-> Junk]
    ELSE data

\* lines 1211-1218: the frame after realloc when less than a chunk is free
Grown(data, size, ubound) ==
    IF size - ubound < TG_CHUNK_SIZE
    THEN data \o [k \in 1..(TG_CHUNK_SIZE * 2) |-> Junk]
    ELSE data

\* data with bytes stored from offset `at` on
Store(data, at, bytes) ==
    [k \in 1..Len(data) |->
        IF k > at /\ k <= at + Len(bytes) THEN bytes[k - at] ELSE data[k]]

\* the bounds moved to the front of the frame, the bytes left where they are
CompactUnmoved(s) ==
    IF s.ubound - s.lbound < s.lbound
    THEN [s EXCEPT !.ubound = s.ubound - s.lbound, !.lbound = 0]
    ELSE s

\* lines 1289-1294: move the unread tail to the front of the frame
Compact(s) ==
    IF s.ubound - s.lbound < s.lbound
    THEN [s EXCEPT !.data = Store(s.data, 0, Slice(s.data, s.lbound, s.ubound)),
                   !.ubound = s.ubound - s.lbound,
                   !.lbound = 0]
    ELSE s

\* streaming switched on only by a timestamp after start
EntersStreamLate(stream, timestamp, start) == stream = 0 /\ timestamp > start

\* line 1271: the line with this timestamp switches streaming on
EntersStream(stream, timestamp, start) == stream = 0 /\ timestamp >= start

\* line 1269: the line with this timestamp ends the run
EndsStream(timestamp, stop) == timestamp >= stop

\* entry of stream_timegrep (lines 1251-1255)
StreamBegin ==
    /\ pc = "stream_timegrep"
    /\ st' = NoSt
    /\ fileout' = <<>>
    /\ pc' = "st_scan"
    /\ UNCHANGED <<env, call, argc_files, rdpos, result, ctx, os, stdout, taken,
                   bs, fl, exit_code>>

\* read_stream_string: a newline already in the frame (lines 1204-1208)
StreamScan ==
    /\ pc = "st_scan"
    /\ LET nl == memchr(st.data, st.lbound, st.ubound - st.lbound) IN
       IF nl # -1
       THEN st' = [st EXCEPT !.length = nl - st.lbound] /\ pc' = "st_line"
       ELSE st' = st /\ pc' = "st_read"
    /\ UNCHANGED <<env, call, argc_files, rdpos, result, ctx, os, stdout,
                   fileout, taken, bs, fl, exit_code>>

\* read_stream_string: one pass of the read loop, read() gives `actual`
\* bytes (lines 1210-1234); actual = 0 is the end of the input
StreamRead(actual) ==
    /\ pc = "st_read"
    /\ actual \in 0..Min2(TG_CHUNK_SIZE, Len(input) - rdpos)
    /\ actual = 0 <=> rdpos = Len(input)
    /\ LET data == Grown(st.data, st.size, st.ubound)
           bytes == Slice(input, rdpos, rdpos + actual)
           filled == Store(data, st.ubound, bytes)
           nl == memchr(filled, st.ubound, actual)
       IN  /\ rdpos' = rdpos + actual
           /\ IF actual = 0
              THEN /\ st' = [st EXCEPT !.data = data, !.size = Len(data)]
                   /\ pc' = "st_ret"
              ELSE /\ st' = [st EXCEPT
                               !.data = filled, !.size = Len(data),
                               !.ubound = st.ubound + actual,
                               !.length = IF nl # -1 THEN nl - st.lbound
                                          ELSE st.length]
                   /\ pc' = IF nl # -1 THEN "st_line" ELSE "st_read"
    /\ UNCHANGED <<env, call, argc_files, result, ctx, os, stdout, fileout,
                   taken, bs, fl, exit_code>>

\* read_stream_string: realloc returns NULL or read() returns -1
StreamReadFails ==
    /\ pc = "st_read"
    /\ pc' = "st_err"
    /\ os' = [os EXCEPT !.fault = TRUE]
    /\ UNCHANGED <<env, call, argc_files, rdpos, result, ctx, stdout, fileout,
                   taken, bs, fl, st, exit_code>>

\* lines 1268-1273: the stream flag after a line whose timestamp is ts
StreamFlag(stream, ts, start) ==
    IF ts.result = TG_FOUND /\ EntersStream(stream, ts.timestamp, start)
    THEN 1 ELSE stream

\* the line written without the newline that follows it
TimestampedBare(ts, got) ==
    IF ts.result = TG_FOUND /\ EndsStream(ts.timestamp, ctx.stop)
    THEN st' = got /\ pc' = "st_ret"
    ELSE IF StreamFlag(st.stream, ts, ctx.start) = 1
    THEN /\ st' = [got EXCEPT !.stream = 1, !.length = st.length]
         /\ pc' = "st_write"
    ELSE /\ st' = Compact([got EXCEPT !.lbound = st.lbound + st.length + 1])
         /\ pc' = "st_scan"

\* lines 1265-1294: ts is what get_timestamp returned for the line; got is
\* the frame with that outcome noted
Timestamped(ts, got) ==
    IF ts.result = TG_FOUND /\ EndsStream(ts.timestamp, ctx.stop)
    THEN st' = got /\ pc' = "st_ret"
    ELSE IF StreamFlag(st.stream, ts, ctx.start) = 1
    THEN /\ st' = [got EXCEPT !.stream = 1, !.length = st.length + 1]
         /\ pc' = "st_write"
    ELSE /\ st' = Compact([got EXCEPT !.lbound = st.lbound + st.length + 1])
         /\ pc' = "st_scan"

\* the frame with the outcome of get_timestamp noted in `timestamp`
Noted(ts) ==
    [st EXCEPT !.parsed = ts.result,
               !.timestamp = IF ts.result = TG_FOUND THEN ts.timestamp ELSE @]

\* lines 1264-1294 with what get_timestamp returned
Lined(ts) == Timestamped(ts, Noted(ts))

\* a completed line: its timestamp decides (lines 1264-1276, 1286-1294)
StreamLine ==
    /\ pc = "st_line"
    /\ Lined(get_timestamp(Slice(st.data, st.lbound, st.lbound + st.length),
                           ctx.re_ctx, TG_TIMEZONE))
    /\ UNCHANGED <<env, call, argc_files, rdpos, result, ctx, os, stdout,
                   fileout, taken, bs, fl, exit_code>>

\* one pass of the write loop: write() takes `actual` bytes (lines 1278-1294)
StreamWrite(actual) ==
    /\ pc = "st_write"
    /\ actual \in 1..st.length
    /\ LET bytes == Slice(st.data, st.lbound, st.lbound + actual)
           moved == [st EXCEPT !.length = st.length - actual,
                               !.lbound = st.lbound + actual]
       IN  /\ stdout' = stdout \o bytes
           /\ fileout' = fileout \o bytes
           /\ IF moved.length > 0
              THEN st' = moved /\ pc' = "st_write"
              ELSE st' = Compact(moved) /\ pc' = "st_scan"
    /\ UNCHANGED <<env, call, argc_files, rdpos, result, ctx, os, taken, bs, fl,
                   exit_code>>

\* write() returns -1 (lines 1280-1281)
StreamWriteFails ==
    /\ pc = "st_write"
    /\ pc' = "st_err"
    /\ os' = [os EXCEPT !.fault = TRUE]
    /\ UNCHANGED <<env, call, argc_files, rdpos, result, ctx, stdout, fileout,
                   taken, bs, fl, st, exit_code>>

\* the value stream_timegrep returns after its loop (line 1299)
StreamResult(stream) == IF stream = 1 THEN TG_FOUND ELSE TG_NOT_FOUND

\* stream_timegrep returns normally to main (lines 1297-1299, 1566)
StreamReturn ==
    /\ pc = "st_ret"
    /\ st' = [st EXCEPT !.result = StreamResult(st.stream)]
    /\ result' = StreamResult(st.stream)
    /\ pc' = "after"
    /\ UNCHANGED <<env, call, argc_files, rdpos, ctx, os, stdout, fileout,
                   taken, bs, fl, exit_code>>

\* stream_timegrep returns through its ERROR label (lines 1301-1309, 1566)
StreamError ==
    /\ pc = "st_err"
    /\ st' = [st EXCEPT !.result = TG_ERROR]
    /\ result' = TG_ERROR
    /\ pc' = "after"
    /\ UNCHANGED <<env, call, argc_files, rdpos, ctx, os, stdout, fileout,
                   taken, bs, fl, exit_code>>

\* ------------------------------------------------------------ main: the end

\* the exit code for the result of the last emitter call (line 1569)
ExitCode(r) == IF r = TG_FOUND THEN 0 ELSE 1

\* line 1569: the exit code, then on to SUCCESS
AfterSearch ==
    /\ pc = "after"
    /\ result' = ExitCode(result)
    /\ pc' = "success"
    /\ UNCHANGED <<env, call, argc_files, rdpos, ctx, os, stdout, fileout,
                   taken, bs, fl, st, exit_code>>

\* the ERROR label (lines 1573-1578), falling through to SUCCESS
ErrorLabel ==
    /\ pc = "error"
    /\ result' = 2
    /\ pc' = "success"
    /\ UNCHANGED <<env, call, argc_files, rdpos, ctx, os, stdout, fileout,
                   taken, bs, fl, st, exit_code>>

\* the SUCCESS label leaving the descriptor of the file open
SuccessLabelLeaks ==
    /\ pc = "success"
    /\ os' = [os EXCEPT
                !.re = IF @ = "compiled" THEN "freed" ELSE @,
                !.maps = IF ctx.data # MAP_FAILED THEN @ - 1 ELSE @]
    /\ exit_code' = result
    /\ pc' = "exit"
    /\ UNCHANGED <<env, call, argc_files, rdpos, result, ctx, stdout, fileout,
                   taken, bs, fl, st>>

\* the SUCCESS label: release what is held and return (lines 1580-1598)
SuccessLabel ==
    /\ pc = "success"
    /\ os' = [os EXCEPT
                !.re = IF @ = "compiled" THEN "freed" ELSE @,
                !.maps = IF ctx.data # MAP_FAILED THEN @ - 1 ELSE @,
                !.fds = IF ctx.fd # -1 /\ ctx.fd # STDIN_FILENO
                        THEN @ \ {ctx.fd} ELSE @]
    /\ exit_code' = result
    /\ pc' = "exit"
    /\ UNCHANGED <<env, call, argc_files, rdpos, result, ctx, stdout, fileout,
                   taken, bs, fl, st>>

\* ============================================================ specifications

\* the state when main is entered, for the given runs (the options with the
\* content of standard input), numbers of file arguments, local zones and
\* clock values
InitProgram(runs, files, zones, clocks) ==
    /\ \E run \in runs : argv = run.argv /\ input = run.input
    /\ argc_files \in files
    /\ TG_TIMEZONE \in zones
    /\ now \in clocks
    /\ rdpos = 0
    /\ pc = "parse_options"
    /\ result = 0
    /\ ctx = ZeroCtx
    /\ os = ZeroOs
    /\ stdout = <<>>
    /\ fileout = <<>>
    /\ taken = <<>>
    /\ bs = NoBs
    /\ fl = NoFl
    /\ st = NoSt
    /\ exit_code = NoExit
    /\ call = NoCall

\* main from the SUCCESS of parse_options to its return, common to all runs
MainEnd == AfterSearch \/ ErrorLabel \/ SuccessLabel

\* ---- the emitters on logs of epoch seconds (format %s)

\* the line bodies of the logs: empty, one byte, two bytes, with timestamps
\* 1, 2, 3 or none
LineBodies == {<<>>, <<"1">>, <<"2">>, <<"3">>, <<"2", "x">>}

RECURSIVE Join(_, _)
\* the lines concatenated, each followed by a newline except, when
\* terminated is FALSE, the last
Join(lines, terminated) ==
    IF lines = <<>> THEN <<>>
    ELSE IF Len(lines) = 1
    THEN IF terminated THEN lines[1] \o <<NL>> ELSE lines[1]
    ELSE lines[1] \o <<NL>> \o Join(Tail(lines), terminated)

\* the logs of at most MaxLines lines
Logs ==
    {Join(lines, terminated) :
        lines \in UNION {[1..n -> LineBodies] : n \in 0..MaxLines},
        terminated \in BOOLEAN}

DecimalDigits == <<"0", "1", "2", "3", "4", "5", "6", "7", "8", "9">>

RECURSIVE DecimalText(_)
\* the decimal text of a natural number
DecimalText(n) ==
    IF n < 10 THEN <<DecimalDigits[n + 1]>>
    ELSE Append(DecimalText(n \div 10), DecimalDigits[(n % 10) + 1])

\* timegrep -e %s -f s -t t
EpochArgs ==
    {<< [opt |-> "e", arg |-> <<"%", "s">>],
        [opt |-> "f", arg |-> DecimalText(s)],
        [opt |-> "t", arg |-> DecimalText(t)] >> : s \in 0..MaxT, t \in 0..MaxT}

\* the runs with the given options and contents of standard input
Runs(args, inputs) == {[argv |-> a, input |-> i] : a \in args, i \in inputs}

\* one file argument holding a log
InitFile == InitProgram(Runs(EpochArgs, {<<>>}), {1}, {0}, {0})

FileActions ==
    \/ FileBegin \/ BsStep \/ BsReturn1 \/ BsReturn2
    \/ (\E actual \in 1..TG_CHUNK_SIZE : FileWrite(actual))
    \/ FileWriteFails \/ FileFinish \/ FileReturn

NextFile ==
    \/ ParseOptions \/ ParseOptionsNoMem \/ Dispatch
    \/ OpenFails \/ FstatFails
    \/ (\E content \in Logs : MmapFails(content))
    \/ (\E content \in Logs : MapFile(content))
    \/ FilesDone
    \/ FileActions
    \/ MainEnd

SpecFile == InitFile /\ [][NextFile]_vars

\* a log on standard input
InitStream == InitProgram(Runs(EpochArgs, Logs), {0}, {0}, {0})

StreamActions ==
    \/ StreamBegin \/ StreamScan
    \/ (\E actual \in 0..TG_CHUNK_SIZE : StreamRead(actual))
    \/ StreamReadFails \/ StreamLine
    \/ (\E actual \in 1..(Len(input) + 1) : StreamWrite(actual))
    \/ StreamWriteFails \/ StreamReturn \/ StreamError

NextStream ==
    \/ ParseOptions \/ ParseOptionsNoMem \/ Dispatch
    \/ StreamActions
    \/ MainEnd

SpecStream == InitStream /\ [][NextStream]_vars

\* ---- several file arguments

\* the contents of the file arguments: an empty file, a log with the line
\* 2x and a log with the line 3
MainLogs == {<<>>, <<"2", "x", NL>>, <<"3", NL>>}

InitMain == InitProgram(Runs(EpochArgs, {<<>>}), 1..MaxFiles, {0}, {0})

NextMain ==
    \/ ParseOptions \/ ParseOptionsNoMem \/ Dispatch
    \/ OpenFails \/ FstatFails
    \/ (\E content \in MainLogs : MmapFails(content))
    \/ (\E content \in MainLogs : MapFile(content))
    \/ FilesDone
    \/ FileActions
    \/ MainEnd

SpecMain == InitMain /\ [][NextMain]_vars

\* ---- the command line: formats, dated lines, boundaries

\* the bytes of the format strings: the directive mark, the two modifiers, a
\* letter that is no directive, three directives and a literal
FormatBytes == {"%", "E", "O", "Q", "Y", "s", "c", "-"}

\* timegrep -e <format> on an empty standard input
FormatRuns ==
    {[argv |-> << [opt |-> "e", arg |-> f] >>, input |-> <<>>] :
        f \in UNION {[1..n -> FormatBytes] : n \in 0..MaxFormat}}

RECURSIVE Directives(_)
\* the format that writes the letters as directives: %s%Y for <<"s", "Y">>
Directives(letters) ==
    IF letters = <<>> THEN <<>>
    ELSE <<"%", letters[1]>> \o Directives(Tail(letters))

\* the directive of the epoch second and one directive for each date and
\* time kind: year, month, month name, day, hour, minute, second
KindLetters == {"s", "Y", "m", "b", "d", "H", "M", "S"}

\* timegrep -e <format> with a format of fewer than MaxFormat directives
KindRuns ==
    {[argv |-> << [opt |-> "e", arg |-> Directives(l)] >>, input |-> <<>>] :
        l \in UNION {[1..n -> KindLetters] : n \in 1..(MaxFormat - 1)}}

TwoDigits(n) == <<DecimalDigits[(n \div 10) + 1], DecimalDigits[(n % 10) + 1]>>

\* the moments of the dated lines: year, month, day, hour, minute, second
Moments ==
    { <<2021, 1, 1, 0, 0, 0>>, <<2021, 12, 31, 23, 59, 59>>,
      <<1999, 2, 28, 12, 30, 15>>, <<1970, 1, 2, 0, 0, 0>> }

\* a moment as text with the given separator of date and time
MomentText(m, sep) ==
    DecimalText(m[1]) \o <<"-">> \o TwoDigits(m[2]) \o <<"-">>
    \o TwoDigits(m[3]) \o <<sep>> \o TwoDigits(m[4]) \o <<":">>
    \o TwoDigits(m[5]) \o <<":">> \o TwoDigits(m[6])

\* the offsets written in the lines of format iso
OffsetTexts == {<<"+", "0", "3", "0", "0">>, <<"-", "0", "1", "0", "0">>}

\* moments before 1970, for which timegm(&tm) is negative and
\* timegm(&tm) - LONG_MIN is representable
EarlyMoments == { <<1969, 12, 31, 23, 59, 58>>, <<1969, 12, 31, 22, 0, 0>> }

\* the zones written as one letter: Zulu, Alpha, and J, which is no zone
LetterZones == {<<"Z">>, <<"A">>, <<"J">>}

\* timegrep -e default and timegrep -e iso on one dated line
DatedRuns ==
    {[argv |-> << [opt |-> "e", arg |-> TG_FORMATS[1].name] >>,
      input |-> MomentText(m, " ") \o <<" ", "a", NL>>] : m \in Moments}
    \cup
    {[argv |-> << [opt |-> "e", arg |-> TG_FORMATS[2].name] >>,
      input |-> MomentText(m, "T") \o z \o <<NL>>] :
        m \in Moments, z \in OffsetTexts}
    \cup
    {[argv |-> << [opt |-> "e", arg |-> TG_FORMATS[2].name] >>,
      input |-> MomentText(m, "T") \o z \o <<NL>>] :
        m \in EarlyMoments, z \in LetterZones}

\* unixtime=1700000000 payload
TskvLine ==
    <<"u","n","i","x","t","i","m","e","=","1","7","0","0","0","0","0","0","0",
      "0"," ","p","a","y","l","o","a","d", NL>>

UnixtimePrefix == <<"u","n","i","x","t","i","m","e","=">>

\* timegrep -e tskv -f <from> -t <to>
TskvArgs(from, to) ==
    << [opt |-> "e", arg |-> TG_FORMATS[5].name],
       [opt |-> "f", arg |-> from], [opt |-> "t", arg |-> to] >>

\* the boundaries as bare epoch seconds
BareArgs == TskvArgs(DecimalText(1700000000), DecimalText(1700000001))

\* the boundaries written as the format writes a timestamp
PrefixedArgs ==
    TskvArgs(UnixtimePrefix \o DecimalText(1700000000),
             UnixtimePrefix \o DecimalText(1700000001))

TskvRuns == Runs({BareArgs, PrefixedArgs}, {TskvLine})

\* the interval options: seconds, minutes and hours with a value that is
\* zero, positive or negative
IntervalOptions ==
    {[opt |-> o, arg |-> v] :
        o \in {"s", "m", "h"}, v \in {<<"0">>, <<"2">>, <<"-", "1">>}}

\* the boundaries given before the interval options: none, -f 7, -t 5000, both
BoundaryOptions ==
    { <<>>, << [opt |-> "f", arg |-> <<"7">>] >>,
      << [opt |-> "t", arg |-> <<"5", "0", "0", "0">>] >>,
      << [opt |-> "t", arg |-> <<"5", "0", "0", "0">>],
         [opt |-> "f", arg |-> <<"7">>] >> }

\* timegrep -e %s [-t 5000] [-f 7] and up to MaxIntervals interval options, on
\* an empty standard input
IntervalRuns ==
    {[argv |-> << [opt |-> "e", arg |-> <<"%", "s">>] >> \o b \o i,
      input |-> <<>>] :
        b \in BoundaryOptions,
        i \in UNION {[1..n -> IntervalOptions] : n \in 0..MaxIntervals}}

\* the local zones: west of, at and east of UTC, in seconds
Zones == {-3600, 0, 10800}

InitCli ==
    InitProgram(FormatRuns \cup KindRuns \cup DatedRuns \cup TskvRuns
                    \cup IntervalRuns,
                {0}, Zones, {1700000001})

NextCli ==
    \/ ParseOptions \/ ParseOptionsNoMem \/ Dispatch
    \/ StreamActions
    \/ MainEnd

SpecCli == InitCli /\ [][NextCli]_vars

\* ==================================================================== claims

\* ---- what the claims speak of: lines, their timestamps, windows

RECURSIVE CompleteLines(_)
\* the newline-terminated lines of data, without their newlines; bytes after
\* the last newline are no complete line
CompleteLines(data) ==
    IF Newlines(data) = {} THEN <<>>
    ELSE <<Slice(data, 0, MinOf(Newlines(data)))>>
         \o CompleteLines(Slice(data, MinOf(Newlines(data)) + 1, Len(data)))

RECURSIVE Concat(_)
\* the lines in order, each followed by its newline
Concat(lines) ==
    IF lines = <<>> THEN <<>> ELSE lines[1] \o <<NL>> \o Concat(Tail(lines))

\* the timestamp the current parser context gives a line
LineStamp(line) == get_timestamp(line, ctx.re_ctx, TG_TIMEZONE)

Stamped(line) == LineStamp(line).result = TG_FOUND

\* data is a sequence of newline-terminated lines
Terminated(data) == Len(data) > 0 /\ data[Len(data)] = NL

AllStamped(data) ==
    \A i \in 1..Len(CompleteLines(data)) : Stamped(CompleteLines(data)[i])

\* the timestamps of the lines that have one never decrease
NonDecreasing(data) ==
    \A i, j \in 1..Len(CompleteLines(data)) :
        (i < j /\ Stamped(CompleteLines(data)[i]) /\ Stamped(CompleteLines(data)[j]))
        => LineStamp(CompleteLines(data)[i]).timestamp
           <= LineStamp(CompleteLines(data)[j]).timestamp

\* every line of data, the bytes after the last newline included
AllLines(data) ==
    IF data = <<>> \/ Terminated(data) THEN CompleteLines(data)
    ELSE CompleteLines(data \o <<NL>>)

\* no line of data, complete or not, has a timestamp below an earlier one
Monotone(data) ==
    \A i, j \in 1..Len(AllLines(data)) :
        (i < j /\ Stamped(AllLines(data)[i]) /\ Stamped(AllLines(data)[j]))
        => LineStamp(AllLines(data)[i]).timestamp
           <= LineStamp(AllLines(data)[j]).timestamp

InWindow(line) ==
    /\ Stamped(line)
    /\ ctx.start <= LineStamp(line).timestamp
    /\ LineStamp(line).timestamp < ctx.stop

\* the lines of data with start <= ts < stop, in input order, as bytes
WindowLines(data) == Concat(SelectSeq(CompleteLines(data), InWindow))

\* ---- C1

\* file_timegrep returned to main without a write error for the mapped log
FileReturned == pc = "file_ret" /\ fl.result # TG_ERROR

\* C1: for a buffer of newline-terminated lines that all yield a timestamp,
\* with non-decreasing timestamps, the bytes file_timegrep writes are, but
\* for a newline appended after the last byte of the buffer, exactly the
\* lines with start <= ts < stop in input order.
C1_FileWindow ==
    (/\ FileReturned
     /\ Terminated(ctx.data) /\ AllStamped(ctx.data) /\ NonDecreasing(ctx.data))
    => \/ fileout = WindowLines(ctx.data)
       \/ fileout = WindowLines(ctx.data) \o <<NL>>

\* ---- C2

\* C2: when the written range reaches the end of a buffer that ends with a
\* newline, no newline is added: the output is the tail of the buffer from
\* some offset on, so it ends as the buffer ends and holds no foreign byte.
C2_FinalNewlineOnlyIfAbsent ==
    (/\ pc = "file_ret" /\ fl.result = TG_FOUND
     /\ fl.ubound = ctx.size
     /\ Terminated(ctx.data))
    => /\ Len(fileout) <= ctx.size
       /\ fileout = Slice(ctx.data, ctx.size - Len(fileout), ctx.size)

\* ---- C3

\* stream_timegrep returned to main without a read or write error
StreamReturned == pc = "after" /\ st.result \in {TG_FOUND, TG_NOT_FOUND}

\* C3: for a non-empty input with non-decreasing timestamps the bytes
\* stream_timegrep wrote equal the bytes file_timegrep writes for the same
\* content mapped as a file and the same window.
C3_FileEqualsStream ==
    (StreamReturned /\ Len(input) > 0 /\ Monotone(input))
    => fileout = file_timegrep(input, Len(input), ctx.start, ctx.stop,
                               ctx.re_ctx, TG_TIMEZONE).out

\* ---- C4

\* C4: the bytes file_timegrep wrote for a window, given to file_timegrep
\* again as the buffer with the same window, are written again unchanged.
C4_Idempotent ==
    (pc = "file_ret" /\ fl.result = TG_FOUND /\ fileout # <<>>)
    => file_timegrep(fileout, Len(fileout), ctx.start, ctx.stop,
                     ctx.re_ctx, TG_TIMEZONE).out = fileout

\* ---- C5

\* index of the first line that ends the run (ts >= stop), or one past the
\* last line
StopAt(lines) ==
    MinOf({i \in 1..Len(lines) :
              Stamped(lines[i]) /\ LineStamp(lines[i]).timestamp >= ctx.stop}
          \cup {Len(lines) + 1})

\* index of the first line before StopAt with ts >= start, or 0
EnterAt(lines) ==
    MinOf({i \in 1..(StopAt(lines) - 1) :
              Stamped(lines[i]) /\ LineStamp(lines[i]).timestamp >= ctx.start}
          \cup {Len(lines) + 1}) % (Len(lines) + 1)

\* the lines from the first with ts >= start up to, not including, the first
\* with ts >= stop
StreamedLines(lines) ==
    IF EnterAt(lines) = 0 THEN <<>>
    ELSE Concat(SubSeq(lines, EnterAt(lines), StopAt(lines) - 1))

\* C5: stream_timegrep discards the lines before the first line with
\* ts >= start, writes every line from it on, each with its newline, and stops
\* without writing at the first line with ts >= stop; it returns TG_FOUND
\* exactly when it entered the streaming state; and when every line has a
\* timestamp and they never decrease, it wrote exactly the lines with
\* start <= ts < stop.
C5_StreamWindow ==
    StreamReturned =>
        /\ fileout = StreamedLines(CompleteLines(input))
        /\ stdout = fileout
        /\ (st.result = TG_FOUND) <=> (st.stream = 1)
        /\ (st.stream = 1) <=> (EnterAt(CompleteLines(input)) # 0)
        /\ (AllStamped(input) /\ NonDecreasing(input))
           => fileout = WindowLines(input)

\* a run that discarded a line, wrote a line and stopped at a line with
\* ts >= stop that it did not write
C5_Witness ==
    /\ StreamReturned
    /\ st.stream = 1
    /\ EnterAt(CompleteLines(input)) > 1
    /\ StopAt(CompleteLines(input)) <= Len(CompleteLines(input))
    /\ fileout # <<>>
    /\ AllStamped(input) /\ NonDecreasing(input)

\* ---- C6

\* main returned and no system call was made to fail
Exited == pc = "exit" /\ ~os.fault

\* C6: when no error occurs, the exit code is 0 exactly when bytes were
\* emitted for at least one of the file arguments, in whatever order the
\* files were given, and 1 otherwise.
C6_ExitCodeOverFiles ==
    (Exited /\ exit_code # 2 /\ Len(taken) > 0)
    => /\ exit_code \in {0, 1}
       /\ (exit_code = 0) <=> (\E i \in 1..Len(taken) : taken[i].wrote)

\* ---- C7

\* C7: a zero-length file argument is skipped: it gives no output and no
\* error, the file arguments after it are still taken, and the exit code is
\* not 2 on its account.
C7_EmptyFileSkipped ==
    (Exited /\ \E i \in 1..Len(taken) : taken[i].size = 0)
    => /\ exit_code # 2
       /\ argc_files = 0
       /\ \A i \in 1..Len(taken) : taken[i].size = 0 => ~taken[i].wrote

\* ---- the timezone of a timestamp read group by group

\* the broken-down time written in the first 19 bytes of a dated line
DatedTm(line) ==
    [tm_year |-> DecimalValue(Slice(line, 0, 4), 1, 0) - 1900,
     tm_mon |-> DecimalValue(Slice(line, 5, 7), 1, 0) - 1,
     tm_mday |-> DecimalValue(Slice(line, 8, 10), 1, 0),
     tm_hour |-> DecimalValue(Slice(line, 11, 13), 1, 0),
     tm_min |-> DecimalValue(Slice(line, 14, 16), 1, 0),
     tm_sec |-> DecimalValue(Slice(line, 17, 19), 1, 0),
     tm_gmtoff |-> 0]

\* the offset +hhmm or -hhmm written after the time, in seconds
WrittenOffset(line) ==
    LET seconds == DecimalValue(Slice(line, 20, 22), 1, 0) * 3600
                   + DecimalValue(Slice(line, 22, 24), 1, 0) * 60
    IN  IF At(line, 19) = "-" THEN -seconds ELSE seconds

\* the timezone of the dated line is written as one letter, not as an
\* offset
LetterZone == At(input, 19) \in Upper

\* stream_timegrep read a timestamp from the groups of the match
DirectFound ==
    /\ st.parsed = TG_FOUND
    /\ ctx.re_ctx.re_opt.fallback = 0
    /\ ctx.re_ctx.re_opt.has_timestamp < 0

\* C8: in the direct extraction path the epoch second of a line without a
\* timezone or with one written as an offset is
\* timegm of its broken-down time minus the offset written in the line when
\* the format has a timezone group, and minus the local offset TG_TIMEZONE
\* when it has none, whatever the local offset is.
C8_TimezoneResolution ==
    (DirectFound /\ ~LetterZone)
    => st.timestamp =
           timegm(DatedTm(input))
           - (IF ctx.re_ctx.re_opt.has_timezone >= 0
              THEN WrittenOffset(input) ELSE TG_TIMEZONE)

\* ---- format strings that are refused

\* the directives of the translation table
ListedDirectives ==
    {"%", "a", "A", "b", "B", "h", "c", "C", "d", "e", "D", "H", "I", "j",
     "m", "M", "n", "t", "p", "r", "R", "S", "T", "X", "U", "W", "V", "w",
     "u", "x", "F", "y", "g", "Y", "G", "z", "Z", "s"}

RECURSIVE BadFrom(_, _)
\* read from byte i on, the format has a % that ends it or that is followed
\* by a byte that is no listed directive (E and O among them)
BadFrom(f, i) ==
    IF i > Len(f) THEN FALSE
    ELSE IF f[i] # "%" THEN BadFrom(f, i + 1)
    ELSE IF i = Len(f) THEN TRUE
    ELSE IF f[i + 1] \in ListedDirectives THEN BadFrom(f, i + 2)
    ELSE TRUE

BadFormat(f) == BadFrom(f, 1)

\* parse_options has returned and no allocation failed
OptionsParsed == pc # "parse_options" /\ ~os.fault

\* C9: for a format with the directive %E or %O, with a % before a byte
\* outside the translation table or with a % as last byte (the format read
\* left to right, so that %% is a literal and takes both bytes),
\* strptime_regex returns
\* TG_ERROR, no regex is compiled, no input is searched and the exit code
\* is 2; for a format of listed directives and literals strptime_regex does
\* not fail.
C9_BadFormat ==
    OptionsParsed
    => IF BadFormat(ctx.re_ctx.format)
       THEN /\ strptime_regex(ctx.re_ctx.format, ZeroOpt).ret = TG_ERROR
            /\ os.re = "null"
            /\ ~os.searched
            /\ stdout = <<>>
            /\ pc \in {"error", "success", "exit"}
            /\ pc \in {"success", "exit"} => result = 2
            /\ pc = "exit" => exit_code = 2
       ELSE strptime_regex(ctx.re_ctx.format, ZeroOpt).ret # TG_ERROR

\* a refused format has ended the process
C9_Witness ==
    /\ pc = "exit"
    /\ ~os.fault
    /\ BadFormat(ctx.re_ctx.format)
    /\ exit_code = 2

\* ---- boundaries of format tskv

\* C10 as stated: with format tskv the boundaries given as bare epoch
\* seconds are accepted, start and stop become 1700000000 and 1700000001,
\* the line unixtime=1700000000 payload is emitted and the run does not end
\* with the exit code of an error.
C10_BareEpochAccepted ==
    (pc = "exit" /\ ~os.fault /\ argv = BareArgs)
    => /\ exit_code # 2
       /\ ctx.start = 1700000000
       /\ ctx.stop = 1700000001
       /\ stdout = TskvLine

\* C10 amended: with format tskv the boundaries given as bare epoch seconds
\* are refused (neither the format nor the heuristic formats parse them):
\* nothing is searched or written and the exit code is 2; the boundaries
\* written as the format writes a timestamp, unixtime=1700000000 and
\* unixtime=1700000001, are accepted, start and stop become 1700000000 and
\* 1700000001, and the line unixtime=1700000000 payload is emitted with exit
\* code 0.
C10_BoundaryInFormat ==
    /\ (OptionsParsed /\ argv = BareArgs)
       => /\ ~os.searched
          /\ stdout = <<>>
          /\ pc \in {"error", "success", "exit"}
          /\ pc = "exit" => exit_code = 2
    /\ (pc = "exit" /\ ~os.fault /\ argv = PrefixedArgs)
       => /\ exit_code = 0
          /\ ctx.start = 1700000000
          /\ ctx.stop = 1700000001
          /\ stdout = TskvLine

\* the bare boundaries have ended the process with the exit code of an error
C10_Witness ==
    /\ pc = "exit"
    /\ ~os.fault
    /\ argv = BareArgs
    /\ exit_code = 2
    /\ stdout = <<>>

\* ---- the interval options

\* the options of the command line that satisfy the test
Options(Test(_)) == {i \in 1..Len(argv) : Test(argv[i])}

IsInterval(option) == option.opt \in {"s", "m", "h"}
IsNegative(option) == IsInterval(option) /\ option.arg[1] = "-"
IsStart(option) == option.opt = "f"

\* the seconds an interval option stands for
Seconds(option) ==
    DecimalValue(option.arg, 1, 0)
    * (CASE option.opt = "s" -> 1 [] option.opt = "m" -> 60
         [] option.opt = "h" -> 3600)

RECURSIVE OffsetSum(_)
\* the seconds of the interval options among the first n options
OffsetSum(n) ==
    IF n = 0 THEN 0
    ELSE OffsetSum(n - 1) + (IF IsInterval(argv[n]) THEN Seconds(argv[n]) ELSE 0)

EmitLogs ==
    {Join(lines, terminated) :
        lines \in UNION {[1..n -> {<<"1">>, <<"2", "x", "y", "z">>, <<"3">>}] :
                            n \in 1..MaxLines},
        terminated \in BOOLEAN}

\* a log on standard input, or one file argument holding a log
InitEmit ==
    \/ InitProgram(Runs(EpochArgs, EmitLogs), {0}, {0}, {0})
    \/ InitProgram(Runs(EpochArgs, {<<>>}), {1}, {0}, {0})

NextEmit ==
    \/ ParseOptions \/ ParseOptionsNoMem \/ Dispatch
    \/ OpenFails \/ FstatFails
    \/ (\E content \in EmitLogs : MmapFails(content))
    \/ (\E content \in EmitLogs : MapFile(content))
    \/ FilesDone
    \/ FileActions
    \/ StreamActions
    \/ MainEnd

SpecEmit == InitEmit /\ [][NextEmit]_vars

\* lo: what the first binary search of file_timegrep hands back
EmitLo ==
    binary_search(ctx.data, ctx.size, 0, ctx.start, ctx.re_ctx, TG_TIMEZONE)

\* hi: what the second binary search, started at lo, hands back
EmitHi(lo) ==
    binary_search(ctx.data, ctx.size, lo, ctx.stop, ctx.re_ctx, TG_TIMEZONE)

\* the file emitter is in its write loop, or has returned after it
FileWriting == pc = "file_write"
FileWrote == pc = "file_ret" /\ fl.result = TG_FOUND

\* the offset in standard input of the byte at data + lbound of the frame
StreamAt == rdpos - (st.ubound - st.lbound)

StreamRunning == pc \in {"st_scan", "st_read", "st_line", "st_write", "st_ret"}

\* C12: under write() calls that each take between 1 and the requested
\* count of bytes, what the file emitter has written is data[lo..lbound)
\* while it writes and data[lo..hi) followed at most by one newline when it
\* returns; what the stream emitter has written is one contiguous run of
\* standard input that ends where the unread part of its frame begins, and
\* that unread part is the input read since, also after the frame was
\* grown or compacted
C12_OutputOrder ==
    /\ FileWriting
       => /\ fl.ubound = EmitHi(EmitLo.position).position
          /\ fl.lbound <= fl.ubound
          /\ fileout = Slice(ctx.data, EmitLo.position, fl.lbound)
    /\ FileWrote
       => \E tail \in {<<>>, <<NL>>} :
            fileout = Slice(ctx.data, EmitLo.position,
                            EmitHi(EmitLo.position).position) \o tail
    /\ StreamRunning
       => /\ StreamAt >= Len(fileout)
          /\ fileout = Slice(input, StreamAt - Len(fileout), StreamAt)
          /\ Slice(st.data, st.lbound, st.ubound) = Slice(input, StreamAt, rdpos)
          /\ stdout = fileout

\* the stream emitter wrote the first two bytes of a four-byte line in a
\* write of their own, from a frame that was grown with data in it and
\* compacted
C12_Witness ==
    /\ pc = "st_write"
    /\ st.length = 3
    /\ Len(fileout) >= 4
    /\ fileout[Len(fileout)] = "x"
    /\ st.size > 2 * TG_CHUNK_SIZE
    /\ StreamAt > st.lbound

\* ---- the search functions called on their own

\* the line bodies of the searched buffers: an empty line, a line without a
\* timestamp, a line of one byte with timestamp 1 and a line with timestamp 3
SearchBodies == {<<>>, <<"x">>, <<"1">>, <<"x", "3">>}

\* the buffers of at most MaxLines lines
SearchBuffers ==
    {Join(lines, terminated) :
        lines \in UNION {[1..n -> SearchBodies] : n \in 0..MaxLines},
        terminated \in BOOLEAN}

\* the calls on a buffer of `size` bytes: get_string(position),
\* forward_search(position, ubound) and binary_search(lbound, search), the
\* lower bound being kept in `position`
Calls(size) ==
    {[fn |-> "get_string", position |-> p, ubound |-> size, search |-> 0,
      ret |-> <<>>] : p \in 0..(size - 1)}
    \cup {[fn |-> "forward_search", position |-> p, ubound |-> u, search |-> 0,
           ret |-> <<>>] : p \in 0..size, u \in 0..size}
    \cup {[fn |-> "binary_search", position |-> l, ubound |-> size,
           search |-> t, ret |-> <<>>] : l \in 0..size, t \in 0..MaxT}

\* a buffer, the context compiled for the format %s, and one call
InitSearch ==
    /\ argv = <<[opt |-> "e", arg |-> <<"%", "s">>]>>
    /\ input = <<>>
    /\ TG_TIMEZONE = 0
    /\ now = 0
    /\ argc_files = 0
    /\ rdpos = 0
    /\ pc = "call"
    /\ result = 0
    /\ \E data \in SearchBuffers :
          /\ ctx = [ZeroCtx EXCEPT !.data = data, !.size = Len(data),
                                   !.re_ctx = CompileContext(<<"%", "s">>)]
          /\ call \in Calls(Len(data))
    /\ os = [ZeroOs EXCEPT !.re = "compiled"]
    /\ stdout = <<>>
    /\ fileout = <<>>
    /\ taken = <<>>
    /\ bs = NoBs
    /\ fl = NoFl
    /\ st = NoSt
    /\ exit_code = NoExit

\* what a call leaves alone
SearchFrame ==
    UNCHANGED <<env, argc_files, rdpos, result, ctx, os, stdout, fileout,
                taken, fl, st, exit_code>>

\* get_string(data, size, position, &start, &length) runs and returns
GetString ==
    /\ pc = "call" /\ call.fn = "get_string"
    /\ call' = [call EXCEPT
                  !.ret = get_string(ctx.data, ctx.size, call.position)]
    /\ pc' = "called"
    /\ bs' = bs
    /\ SearchFrame

\* forward_search(data, size, position, ubound, ...) runs and returns
ForwardSearch ==
    /\ pc = "call" /\ call.fn = "forward_search"
    /\ call' = [call EXCEPT
                  !.ret = forward_search(ctx.data, ctx.size, call.position,
                                         call.ubound, ctx.re_ctx, TG_TIMEZONE)]
    /\ pc' = "called"
    /\ bs' = bs
    /\ SearchFrame

\* entry of binary_search(data, size, lbound, search, ...): lines 1058-1060
SearchBegin ==
    /\ pc = "call" /\ call.fn = "binary_search"
    /\ bs' = BsInit(ctx.size, call.position)
    /\ pc' = "binary_search"
    /\ call' = call
    /\ SearchFrame

\* one iteration of the loop of binary_search (lines 1062-1093)
SearchProbe ==
    /\ pc = "binary_search"
    /\ BsRunning(bs)
    /\ bs' = BsIter(ctx.data, ctx.size, call.search, ctx.re_ctx, TG_TIMEZONE,
                    bs)
    /\ UNCHANGED <<pc, call>>
    /\ SearchFrame

\* binary_search returns (lines 1095-1098)
SearchReturn ==
    /\ pc = "binary_search"
    /\ ~BsRunning(bs)
    /\ call' = [call EXCEPT !.ret = BsOutcome(bs)]
    /\ pc' = "called"
    /\ bs' = bs
    /\ SearchFrame

NextSearch ==
    GetString \/ ForwardSearch \/ SearchBegin \/ SearchProbe \/ SearchReturn

SpecSearch == InitSearch /\ [][NextSearch]_vars

\* ---- what the searched buffer holds, line by line

\* the offsets at which the lines of the searched buffer start
LineStarts ==
    {s \in 0..(ctx.size - 1) : s = 0 \/ At(ctx.data, s - 1) = NL}

\* the offset one past the last byte of the line that starts at s
LineEnd(s) ==
    MinOf({e \in s..ctx.size : e = ctx.size \/ At(ctx.data, e) = NL})

\* what the extractor makes of the line that starts at s
Stamp(s) == LineStamp(Slice(ctx.data, s, LineEnd(s)))

\* the starts of the lines with a timestamp
StampedStarts == {s \in LineStarts : Stamp(s).result = TG_FOUND}

\* the starts of the lines in [lbound, N) whose timestamp is >= search
AtLeast(lbound, search) ==
    {s \in StampedStarts : s >= lbound /\ Stamp(s).timestamp >= search}

Returned(fn) == pc = "called" /\ call.fn = fn

\* the lower bound of the call is the start of a line or the size
AtLineStart == call.position \in LineStarts \cup {ctx.size}

\* C13: on a buffer of newline-terminated lines with non-decreasing
\* timestamps, in which lines without a timestamp may stand anywhere,
\* searched for T from a lower bound L0 at the start of a line: if some line
\* starting in [L0, N) has a timestamp >= T then binary_search returns
\* TG_FOUND and *position is the start of the earliest such line
C13_EarliestLine ==
    (/\ Returned("binary_search") /\ AtLineStart
     /\ Terminated(ctx.data) /\ Monotone(ctx.data)
     /\ AtLeast(call.position, call.search) # {})
    => /\ call.ret.result = TG_FOUND
       /\ call.ret.position = MinOf(AtLeast(call.position, call.search))

\* every line starting in [lbound, N) has a timestamp, and there is one
AllStampedFrom(lbound) ==
    /\ \E s \in LineStarts : s >= lbound
    /\ \A s \in LineStarts : s >= lbound => s \in StampedStarts

\* C14: binary_search returns TG_FOUND only if some line starting in
\* [L0, N) has a timestamp >= T; on a buffer of newline-terminated lines,
\* searched from a lower bound at the start of a line, if every line in
\* [L0, N) has a timestamp and all of them are < T, it returns TG_NOT_FOUND
C14_NothingQualifies ==
    (Returned("binary_search") /\ AtLineStart /\ Terminated(ctx.data))
    => /\ call.ret.result = TG_FOUND
          => AtLeast(call.position, call.search) # {}
       /\ (/\ AllStampedFrom(call.position)
           /\ AtLeast(call.position, call.search) = {})
          => call.ret.result = TG_NOT_FOUND

\* ---- C15

\* file_timegrep returned, no write failed, after a first search that found
\* lo, the start of a line with a timestamp >= start, and a second search,
\* started at lo, that did not return TG_FOUND
SecondNotFound ==
    /\ pc = "file_ret" /\ fl.result # TG_ERROR
    /\ EmitLo.result = TG_FOUND
    /\ EmitLo.position \in AtLeast(0, ctx.start)
    /\ EmitHi(EmitLo.position).result # TG_FOUND

\* C15: when the first binary search found lo and the second one does not
\* return TG_FOUND, file_timegrep takes hi = N and has written
\* data[lo..N), followed by the final newline, when it returns
C15_SecondSearch ==
    SecondNotFound
    => fileout = Slice(ctx.data, EmitLo.position, ctx.size) \o <<NL>>

\* ---- C16

\* U - L of the locals of binary_search
BsWidth(b) == b.ubound - b.lbound

\* an iteration of the loop of binary_search
Iterates == pc = "binary_search" /\ bs' # bs

LineHolding(p) == MaxOf({s \in LineStarts : s <= p})

\* the starts of the lines from the one holding p on that have a timestamp
\* and a byte below ubound
Scanned(p, ubound) ==
    {s \in StampedStarts : s >= LineHolding(p) /\ s < ubound}

\* forward_search returned for a position below ubound that is no newline,
\* in a buffer of newline-terminated lines
ScannedFrom ==
    /\ Returned("forward_search")
    /\ call.position < call.ubound
    /\ Terminated(ctx.data)
    /\ At(ctx.data, call.position) # NL

\* C17: forward_search returns the first line, in byte order from the line
\* holding the position, that has a timestamp and a byte below ubound: no
\* such line is skipped after a line without a timestamp, a line of one
\* byte included
C17_NoLineSkipped ==
    (ScannedFrom /\ Scanned(call.position, call.ubound) # {})
    => /\ call.ret.result = TG_FOUND
       /\ call.ret.start = MinOf(Scanned(call.position, call.ubound))

\* ---- C18

\* no byte of the buffer in [from, to) is a newline
NoNewline(from, to) == \A i \in from..(to - 1) : At(ctx.data, i) # NL

\* the bounds [start, start + length) are those of the line holding p
BoundsOf(p, start, length) ==
    /\ start <= p /\ p < start + length /\ start + length <= ctx.size
    /\ NoNewline(start, start + length)
    /\ start = 0 \/ At(ctx.data, start - 1) = NL
    /\ start + length = ctx.size \/ At(ctx.data, start + length) = NL

\* C18: for every buffer and every position p < N, get_string returns
\* TG_NOT_FOUND iff the byte at p is a newline; otherwise it yields the
\* bounds of the line holding p, and returns TG_NULL instead of TG_FOUND
\* iff the buffer holds no newline at all
C18_LineLocator ==
    Returned("get_string")
    => /\ call.ret.result = TG_NOT_FOUND <=> At(ctx.data, call.position) = NL
       /\ call.ret.result # TG_NOT_FOUND
          => /\ call.ret.result \in {TG_FOUND, TG_NULL}
             /\ BoundsOf(call.position, call.ret.start, call.ret.length)
             /\ call.ret.result = TG_NULL <=> Newlines(ctx.data) = {}

\* get_string located a line of two bytes between two other lines, from the
\* second byte of it
C18_Witness ==
    /\ Returned("get_string")
    /\ call.ret.result = TG_FOUND
    /\ call.ret.start > 0
    /\ call.position = call.ret.start + 1
    /\ call.ret.length = 2
    /\ call.ret.start + call.ret.length + 1 < ctx.size

\* ---- C19

\* the letters of the directives of a format made of directives only
Letters(format) == {format[2 * i] : i \in 1..(Len(format) \div 2)}

\* the format given with -e is made of directives of KindLetters only
KindFormat ==
    /\ Len(argv) = 1 /\ argv[1].opt = "e"
    /\ argv[1].arg # <<>>
    /\ argv[1].arg = Directives([i \in 1..(Len(argv[1].arg) \div 2) |->
                                    argv[1].arg[2 * i]])
    /\ Letters(argv[1].arg) \subseteq KindLetters

\* C19: when the compiler accepted a format in which %s stands together
\* with at least one directive of a date or time kind (year, month, month
\* name, day, hour, minute, second), be it exactly one, fallback is set in
\* the parser context
C19_TimestampWithKinds ==
    (/\ OptionsParsed /\ KindFormat /\ os.re = "compiled"
     /\ "s" \in Letters(argv[1].arg)
     /\ Letters(argv[1].arg) \ {"s"} # {})
    => ctx.re_ctx.re_opt.fallback # 0

\* ---- C20

\* timegrep -e iso on a line whose timezone is written as the letter J
ZoneJ ==
    /\ argv[1].arg = TG_FORMATS[2].name
    /\ Len(input) > 1
    /\ input[Len(input) - 1] = "J"

\* C20: for a line whose %z group matched the letter J, which atogmtoff
\* does not accept, the extractor does not return TG_FOUND: the stream
\* emitter never notes a timestamp for the line
C20_BadTimezone == ZoneJ => st.parsed # TG_FOUND

\* ---- C21

\* file_timegrep runs on the mapped file, or has just returned to main
InFileSearch == pc \in {"file_timegrep", "bs1", "bs2", "file_write", "file_ret"}

\* C21: on every path through main at most one file is mapped at a time;
\* while a file is searched its descriptor is closed and it is the one
\* mapping; before the next file is opened nothing is mapped and no
\* descriptor is open; and when main has returned no descriptor opened by
\* the program is open, nothing is mapped, and the regex, if one was
\* compiled, has been freed
C21_ResourceDiscipline ==
    /\ os.maps \in {0, 1}
    /\ pc # "exit" => (os.maps = 1 <=> ctx.data # MAP_FAILED)
    /\ InFileSearch => os.maps = 1 /\ os.fds = {} /\ ctx.fd = -1
    /\ pc = "file_loop" => os.maps = 0 /\ os.fds = {}
    /\ pc # "exit" => os.re # "freed"
    /\ pc = "exit"
       => /\ os.fds = {}
          /\ os.maps = 0
          /\ os.re \in {"null", "freed"}
          /\ os.searched => os.re = "freed"

\* main returned 2 after the second file argument, whose descriptor was
\* still open at the ERROR label, the first one having been searched
C21_Witness ==
    /\ pc = "exit"
    /\ exit_code = 2
    /\ Len(taken) = 2
    /\ taken[1].size > 0
    /\ ctx.fd = FILE_FD
    /\ os.re = "freed"

\* ---- C22

\* the mapped buffer holds no newline
SingleLine == pc = "file_ret" /\ NoNewline(0, ctx.size)

\* C22: for a buffer that holds no newline at all, file_timegrep writes
\* nothing and returns TG_NULL, which main turns into the exit code 1, for
\* every window, also when the timestamp of the line is in [start, stop).
C22_UnterminatedLine ==
    [][SingleLine
       => /\ fl.result = TG_NULL
          /\ fileout = <<>>
          /\ result' = TG_NULL /\ ExitCode(result') = 1
          /\ pc' = "file_loop"]_vars

C22_Witness ==
    /\ SingleLine /\ ctx.size = 2
    /\ InWindow(ctx.data)
    /\ fl.result = TG_NULL /\ fileout = <<>>

\* ---- C23

\* the offset after the last newline of data
AfterLastNewline(data) ==
    IF Newlines(data) = {} THEN 0 ELSE MaxOf(Newlines(data)) + 1

\* stream_timegrep is between two lines, or has left its loop
BetweenLines == pc \in {"st_scan", "st_read", "st_ret"}

\* C23: every line stream_timegrep writes ends with the newline read from
\* the input, and the bytes after the last newline of the input are never
\* handed to get_timestamp and never written, also when stream = 1 at the
\* end of the input.
C23_StreamEnd ==
    StreamRunning
    => /\ StreamAt <= AfterLastNewline(input)
       /\ fileout = Slice(input, StreamAt - Len(fileout), StreamAt)
       /\ (BetweenLines /\ fileout # <<>>) => fileout[Len(fileout)] = NL
       /\ pc = "st_line" => StreamAt + st.length \in Newlines(input)
       /\ pc = "st_write" => StreamAt + st.length - 1 \in Newlines(input)

C23_Witness ==
    /\ pc = "st_ret" /\ st.stream = 1 /\ rdpos = Len(input)
    /\ AfterLastNewline(input) < Len(input)
    /\ InWindow(Slice(input, AfterLastNewline(input), Len(input)))
    /\ fileout = Slice(input, 0, AfterLastNewline(input))
    /\ fileout # <<>>

\* ---- C24

\* the bounds of the frame of stream_timegrep
FrameBounds ==
    /\ 0 <= st.lbound /\ st.lbound <= st.ubound /\ st.ubound <= st.size
    /\ st.size = Len(st.data)

\* a step of the read loop that calls read(): the destination data + ubound
\* has a chunk of the frame after it
ReadStep == pc = "st_read" /\ pc' # "st_err"

ReadFits == st'.size - st.ubound >= TG_CHUNK_SIZE

\* a step that ends with lines 1289-1294, the line consumed
CompactStep == pc \in {"st_line", "st_write"} /\ pc' = "st_scan"

\* lbound as it is when line 1289 is reached
Consumed == st.lbound + st.length + (IF pc = "st_line" THEN 1 ELSE 0)

\* the unconsumed bytes are the same before and after lines 1289-1294
Preserved ==
    /\ st'.ubound - st'.lbound = st.ubound - Consumed
    /\ Slice(st'.data, st'.lbound, st'.ubound)
       = Slice(st.data, Consumed, st.ubound)

\* C24: after any sequence of reads of 1 to TG_CHUNK_SIZE bytes, line
\* consumptions, partial writes, growths and compactions of stream_timegrep,
\* 0 <= lbound <= ubound <= size holds, every read() is given a destination
\* followed by at least TG_CHUNK_SIZE bytes of the frame, and the compaction
\* keeps the unconsumed bytes data[lbound..ubound) unchanged and in order.
C24_FrameInvariant ==
    /\ [](StreamRunning => FrameBounds)
    /\ [][/\ ReadStep => ReadFits
          /\ CompactStep => Preserved]_vars

C24_Witness ==
    /\ pc = "st_scan"
    /\ st.size = 4 * TG_CHUNK_SIZE
    /\ st.lbound = 0 /\ st.ubound = 1
    /\ StreamAt = 5 /\ rdpos = 6
    /\ At(st.data, 0) = At(input, 5)

\* ---- C25

\* binary_search is at the test of its loop (line 1062), called with a lower
\* bound at the start of a line
LoopTest == pc = "binary_search" /\ AtLineStart

\* the positions the next probe of binary_search reads
ProbeReads ==
    ScanReads(ctx.data, ctx.size, bs.middle, bs.ubound, ctx.re_ctx, TG_TIMEZONE)

\* C25: for L0 the start of a line, L0 <= lbound <= middle <= ubound <= size
\* holds at every test of the loop of binary_search, every position the
\* forward scanner reads is below size, and a returned position is in
\* [L0, size].
C25_SearchBounds ==
    /\ LoopTest
       => /\ call.position <= bs.lbound /\ bs.lbound <= bs.middle
          /\ bs.middle <= bs.ubound /\ bs.ubound <= ctx.size
          /\ BsRunning(bs) => \A p \in ProbeReads : p < ctx.size
    /\ (Returned("binary_search") /\ AtLineStart
        /\ call.ret.result = TG_FOUND)
       => call.position <= call.ret.position /\ call.ret.position <= ctx.size

\* a call from the start of a later line has returned a position between
\* its lower bound and the size, both bounds moved by the probes
C25_Witness ==
    /\ Returned("binary_search") /\ AtLineStart
    /\ call.ret.result = TG_FOUND
    /\ 0 < call.position /\ call.position < call.ret.position
    /\ call.ret.position < ctx.size
    /\ bs.ubound < ctx.size
====
